---- MODULE Spec2Model ----
(***************************************************************************)
(* Month-view compositor of calvin: PrepareMonthData (internal/render/      *)
(* render.go), the temperature helpers of internal/weather, SortEvents of   *)
(* internal/calendar and truncateText (internal/render/graphics.go).        *)
(*                                                                          *)
(* A time.Time is modelled as [day, tod]: the number of days since          *)
(* 1970-01-01 of its calendar date in its own location, and the minute of   *)
(* that day.  Strings are sequences of one-character strings.  Every local  *)
(* midnight is taken to exist (no daylight-saving gap at 00:00), so that    *)
(* time.Date and AddDate on midnight values are plain calendar arithmetic.  *)
(***************************************************************************)
EXTENDS Integers, Sequences, FiniteSets, TLC

VARIABLES
    pc,               \* "start", then the call that has returned
    now,              \* time.Now() as read by PrepareMonthData
    weatherData,      \* *weather.Forecast argument: [IsNil, Hourly]
    events,           \* []calendar.Event argument
    maxEventsPerDay,  \* int argument
    eventsByDate,     \* the local map of PrepareMonthData when it returns
    data,             \* TemplateData.Weeks returned by PrepareMonthData
    font,             \* the parsed regular font: glyph advances and kerning
    text,             \* truncateText argument text (bytes)
    maxWidth,         \* truncateText argument maxWidth, in 1/64 pixel
    truncated,        \* string returned by truncateText
    retruncated,      \* string returned by truncateText applied to truncated
    flags,            \* command line: [dumpHTML, noShutdown, listCalendars]
    calendars,        \* cfg.Calendar.Calendars: sequence of [ID, Name]
    fetched,          \* what FetchEventsForMonth returned for each calendar
    allEvents,        \* the local allEvents of Run and of main
    output,           \* the file at cfg.Output.Path
    cmds,             \* the commands executed so far, with their outcome
    log,              \* the steps whose error was logged or returned
    result,           \* "running", then the error returned or the exit status
    clock,            \* time.Now() of the alarm, in seconds since 1970-01-01 UTC
    zone,             \* offset of the local time zone, in seconds east of UTC
    alarmTime,        \* the argument given to pisugar-cli --set-alarm
    tmpl,             \* the TemplateData given to RenderCalendarToPNG
    canvas,           \* the cells drawn on the canvas, with the event rows of each
    renderErr,        \* the error returned by RenderCalendarToPNG
    providerItems,    \* events.Items returned by the calendar provider
    timeMin,          \* the TimeMin given to the provider
    timeMax,          \* the TimeMax given to the provider
    fetchResult,      \* what FetchEventsForMonth returned: [events, err]
    batteryOutput,    \* the combined output of pisugar-cli --get-battery-level
    batteryResult,    \* what GetBatteryPercentage returned: [value, err]
    sortedEvents      \* the slice returned by SortEvents

vars == <<pc, now, weatherData, events, maxEventsPerDay, eventsByDate, data,
          font, text, maxWidth, truncated, retruncated,
          flags, calendars, fetched, allEvents, output, cmds, log, result,
          clock, zone, alarmTime,
          tmpl, canvas, renderErr,
          providerItems, timeMin, timeMax, fetchResult,
          batteryOutput, batteryResult,
          sortedEvents>>

runVars == <<flags, calendars, fetched, allEvents, output, cmds, log, result>>

sortVars == <<sortedEvents>>

batteryVars == <<batteryOutput, batteryResult>>

fetchVars == <<providerItems, timeMin, timeMax, fetchResult>>

drawVars == <<tmpl, canvas, renderErr>>

alarmVars == <<clock, zone, alarmTime>>

gridVars == <<now, weatherData, events, maxEventsPerDay, eventsByDate, data>>
textVars == <<font, text, maxWidth, truncated, retruncated>>

\* a nil *weather.Forecast
NilForecast == [IsNil |-> TRUE, Hourly |-> <<>>]

----------------------------------------------------------------------------
(* Bounds of the model *)

BaseYear == 2000      \* first year taken as the current year
YearSpan == 28        \* number of consecutive years taken as current year

----------------------------------------------------------------------------
(* time package: calendar arithmetic used through time.Date, AddDate,       *)
(* Weekday, YearDay and Format                                              *)

FloorDiv(a, b) == IF a >= 0 THEN a \div b ELSE -((-a + b - 1) \div b)

\* Days since 1970-01-01 of the civil date y-m-d (1 <= m <= 12, any d >= 1)
DaysFromCivil(y, m, d) ==
    LET yy  == IF m <= 2 THEN y - 1 ELSE y
        era == FloorDiv(yy, 400)
        yoe == yy - era * 400
        mp  == (m + 9) % 12
        doy == (153 * mp + 2) \div 5 + d - 1
        doe == yoe * 365 + yoe \div 4 - yoe \div 100 + doy
    IN  era * 146097 + doe - 719468

\* Civil date <<y, m, d>> of a day number, computed in steps: the era of 400
\* years, the day of the era, the year of the era, the day of the year
\* counted from 1 March, the month counted from March
CivilOfMonth(era, yoe, doy, mp) ==
    LET m == IF mp < 10 THEN mp + 3 ELSE mp - 9
    IN  <<yoe + era * 400 + (IF m <= 2 THEN 1 ELSE 0), m,
          doy - (153 * mp + 2) \div 5 + 1>>

CivilOfDayOfYear(era, yoe, doy) == CivilOfMonth(era, yoe, doy, (5 * doy + 2) \div 153)

CivilOfYearOfEra(era, doe, yoe) ==
    CivilOfDayOfYear(era, yoe, doe - (365 * yoe + yoe \div 4 - yoe \div 100))

CivilOfDayOfEra(era, doe) ==
    CivilOfYearOfEra(era, doe,
        (doe - doe \div 1460 + doe \div 36524 - doe \div 146096) \div 365)

CivilOfEra(z, era) == CivilOfDayOfEra(era, z - era * 146097)

CivilFromDays(z0) == CivilOfEra(z0 + 719468, FloorDiv(z0 + 719468, 146097))

\* time.Date(year, month, day, 0,0,0,0, loc): month and day values outside
\* their ranges are normalised
Date(year, month, day) ==
    LET m0 == month - 1
        y  == year + FloorDiv(m0, 12)
        m  == m0 - 12 * FloorDiv(m0, 12) + 1
    IN  DaysFromCivil(y, m, 1) + (day - 1)

Year(t)  == CivilFromDays(t)[1]
Month(t) == CivilFromDays(t)[2]
Day(t)   == CivilFromDays(t)[3]

\* t.AddDate(years, months, days) on a midnight value
AddDate(t, years, months, days) ==
    Date(Year(t) + years, Month(t) + months, Day(t) + days)

\* t.Weekday(): Sunday = 0, ..., Saturday = 6
Weekday(t) == (((t + 4) % 7) + 7) % 7

\* t.YearDay()
YearDay(t) == t - DaysFromCivil(Year(t), 1, 1) + 1

IsLeap(y) == (y % 4 = 0 /\ y % 100 # 0) \/ y % 400 = 0

DaysIn(y, m) ==
    IF m = 2 THEN (IF IsLeap(y) THEN 29 ELSE 28)
    ELSE IF m \in {4, 6, 9, 11} THEN 30 ELSE 31

\* t.Format("2006-01-02"): the key is the civil date
FormatDate(t) == CivilFromDays(t)

MonthShortNames == <<"Jan", "Feb", "Mar", "Apr", "May", "Jun",
                     "Jul", "Aug", "Sep", "Oct", "Nov", "Dec">>

DigitChars == <<"0", "1", "2", "3", "4", "5", "6", "7", "8", "9">>

\* decimal digits of a natural number, as a string
RECURSIVE Itoa(_)
Itoa(n) == IF n < 10 THEN <<DigitChars[n + 1]>>
           ELSE Itoa(n \div 10) \o <<DigitChars[(n % 10) + 1]>>

\* t.Format("15:04") of the minute of day
FormatClock(tod) ==
    LET h == tod \div 60
        m == tod % 60
    IN  <<DigitChars[(h \div 10) + 1], DigitChars[(h % 10) + 1], ":",
          DigitChars[(m \div 10) + 1], DigitChars[(m % 10) + 1]>>

\* t.Before(u) for two values of one location
Before(t, u) == t.day < u.day \/ (t.day = u.day /\ t.tod < u.tod)

----------------------------------------------------------------------------
(* internal/calendar: SortEvents, IsToday, IsWeekend *)

\* EventLess ordering by start time only
EventLess_StartOnly(a, b) == Before(a.Start, b.Start)

\* the less function handed to sort.Slice by SortEvents
EventLess(a, b) ==
    IF a.AllDay /\ ~b.AllDay THEN TRUE
    ELSE IF ~a.AllDay /\ b.AllDay THEN FALSE
    ELSE Before(a.Start, b.Start)

Swap(s, i, j) == [s EXCEPT ![i] = s[j], ![j] = s[i]]

\* inner loop of the library's insertion sort:
\* for j := i; j > a && less(j, j-1); j-- { swap(j, j-1) }
RECURSIVE SinkDown(_, _)
SinkDown(s, j) ==
    IF j > 1 /\ EventLess(s[j], s[j - 1])
    THEN SinkDown(Swap(s, j, j - 1), j - 1)
    ELSE s

\* outer loop: for i := a + 1; i < b; i++
RECURSIVE InsertionSort(_, _)
InsertionSort(s, i) ==
    IF i > Len(s) THEN s ELSE InsertionSort(SinkDown(s, i), i + 1)

\* SortEvents copies the slice and sorts the copy with sort.Slice
SortEvents(evs) == InsertionSort(evs, 2)

\* the slice length up to which sort.Slice is the insertion sort above
maxInsertion == 12

\* neither event is less than the other
Tied(a, b) == ~EventLess(a, b) /\ ~EventLess(b, a)

RemoveAt(s, i) == SubSeq(s, 1, i - 1) \o SubSeq(s, i + 1, Len(s))

\* every order of the elements of s
RECURSIVE Orderings(_)
Orderings(s) ==
    IF s = <<>> THEN {<<>>}
    ELSE UNION { { <<s[i]>> \o p : p \in Orderings(RemoveAt(s, i)) } : i \in DOMAIN s }

\* the last index of the run of events tied with s[1]
RECURSIVE RunEnd(_, _)
RunEnd(s, k) ==
    IF k < Len(s) /\ Tied(s[1], s[k + 1]) THEN RunEnd(s, k + 1) ELSE k

\* the sorted orders of a sorted slice: each run of tied events in any order
RECURSIVE SortedOrders(_)
SortedOrders(s) ==
    IF s = <<>> THEN {<<>>}
    ELSE LET k == RunEnd(s, 1)
         IN  { p \o q : p \in Orderings(SubSeq(s, 1, k)),
                        q \in SortedOrders(SubSeq(s, k + 1, Len(s))) }

\* what sort.Slice may leave in the slice: "The sort is not guaranteed to be
\* stable: equal elements may be reversed from their original order."  Up to
\* maxInsertion elements it is the insertion sort; a longer slice goes
\* through the pattern-defeating quicksort, whose pivot swaps move tied
\* elements past each other, so every sorted order is an outcome
SortSlice(evs) ==
    IF Len(evs) <= maxInsertion THEN {SortEvents(evs)}
    ELSE SortedOrders(InsertionSort(evs, 2))

\* IsToday comparing the day of the month only
IsToday_DayOfMonth(t, nw) == Day(t) = Day(nw.day)

\* calendar.IsToday(t), with the clock reading nw
IsToday(t, nw) == Year(t) = Year(nw.day) /\ YearDay(t) = YearDay(nw.day)

\* calendar.IsWeekend(t)
IsWeekend(t) == Weekday(t) = 6 \/ Weekday(t) = 0

----------------------------------------------------------------------------
(* internal/weather: GetDayTemperature, GetNightTemperature.  A float64     *)
(* result is the exact fraction num/den.                                    *)

RECURSIVE SumTemps(_, _, _, _, _)
SumTemps(hourly, i, date, lo, hi) ==
    IF i > Len(hourly) THEN [sum |-> 0, count |-> 0]
    ELSE LET h    == hourly[i]
             rest == SumTemps(hourly, i + 1, date, lo, hi)
             hour == h.Time.tod \div 60
         IN  IF /\ Year(h.Time.day) = Year(date)
                /\ Month(h.Time.day) = Month(date)
                /\ Day(h.Time.day) = Day(date)
                /\ hour >= lo /\ hour < hi
             THEN [sum |-> rest.sum + h.Temperature, count |-> rest.count + 1]
             ELSE rest

BandMean(f, date, lo, hi) ==
    LET r == SumTemps(f.Hourly, 1, date, lo, hi)
    IN  IF r.count = 0 THEN [num |-> 0, den |-> 1]
        ELSE [num |-> r.sum, den |-> r.count]

GetDayTemperature(f, date)   == BandMean(f, date, 12, 18)
GetNightTemperature(f, date) == BandMean(f, date, 0, 6)

\* fmt.Sprintf("%.0f°", v): round half to even, the sign of a negative value
\* is kept even when it rounds to zero
FormatTemp(v) ==
    LET a == IF v.num < 0 THEN -v.num ELSE v.num
        q == a \div v.den
        r == a % v.den
        n == IF 2 * r < v.den THEN q
             ELSE IF 2 * r > v.den THEN q + 1
             ELSE IF q % 2 = 0 THEN q ELSE q + 1
    IN  (IF v.num < 0 THEN <<"-">> ELSE <<>>) \o Itoa(n) \o <<"°">>

----------------------------------------------------------------------------
(* internal/render: PrepareMonthData *)

EmptyMap == [k \in {} |-> <<>>]

\* eventsByDate[dateKey], nil for a missing key
MapGet(m, k) == IF k \in DOMAIN m THEN m[k] ELSE <<>>

\* eventsByDate[dateKey] = append(eventsByDate[dateKey], event)
MapAppend(m, k, e) ==
    [x \in DOMAIN m \cup {k} |-> IF x = k THEN Append(MapGet(m, k), e) ELSE m[x]]

\* startDate and endDate of an event: the calendar dates of Start and End,
\* the end of an all-day event moved back one day when it is after the start
EventStartDate(e) == Date(Year(e.Start.day), Month(e.Start.day), Day(e.Start.day))

\* EventEndDate without the all-day correction
EventEndDate_Inclusive(e) ==
    Date(Year(e.End.day), Month(e.End.day), Day(e.End.day))

\* EventEndDate moving the end back for timed events too
EventEndDate_AlwaysExclusive(e) ==
    LET startDate == EventStartDate(e)
        endDate   == Date(Year(e.End.day), Month(e.End.day), Day(e.End.day))
    IN  IF endDate > startDate THEN AddDate(endDate, 0, 0, -1) ELSE endDate

EventEndDate(e) ==
    LET startDate == EventStartDate(e)
        endDate   == Date(Year(e.End.day), Month(e.End.day), Day(e.End.day))
    IN  IF e.AllDay /\ endDate > startDate
        THEN AddDate(endDate, 0, 0, -1)
        ELSE endDate

\* for currentDate := startDate; currentDate <= endDate; currentDate += 1 day
RECURSIVE AddEventDays(_, _, _, _)
AddEventDays(m, e, currentDate, endDate) ==
    IF currentDate <= endDate
    THEN AddEventDays(MapAppend(m, FormatDate(currentDate), e), e,
                      AddDate(currentDate, 0, 0, 1), endDate)
    ELSE m

\* for _, event := range events
RECURSIVE BuildEventsByDate(_, _, _)
BuildEventsByDate(evs, i, m) ==
    IF i > Len(evs) THEN m
    ELSE BuildEventsByDate(evs, i + 1,
             AddEventDays(m, evs[i], EventStartDate(evs[i]), EventEndDate(evs[i])))

\* IsoWeekday without the remapping of Sunday
IsoWeekday_Raw(t) == Weekday(t)

\* weekday with Sunday remapped to 7
IsoWeekday(t) == IF Weekday(t) = 0 THEN 7 ELSE Weekday(t)

\* GridStartDate with the weekday of a Sunday left at 0
GridStartDate_NoRemap(nw) ==
    LET firstOfMonth == Date(Year(nw.day), Month(nw.day), 1)
    IN  AddDate(firstOfMonth, 0, 0, -(Weekday(firstOfMonth) - 1))

GridStartDate(nw) ==
    LET firstOfMonth == Date(Year(nw.day), Month(nw.day), 1)
    IN  AddDate(firstOfMonth, 0, 0, -(IsoWeekday(firstOfMonth) - 1))

GridEndDate(nw) ==
    LET firstOfMonth == Date(Year(nw.day), Month(nw.day), 1)
        lastOfMonth  == AddDate(firstOfMonth, 0, 1, -1)
    IN  AddDate(lastOfMonth, 0, 0, 7 - IsoWeekday(lastOfMonth))

\* LimitEvents keeping the last cap events instead of the first
LimitEvents_KeepLast(sorted, cap) ==
    IF Len(sorted) > cap THEN SubSeq(sorted, Len(sorted) - cap + 1, Len(sorted)) ELSE sorted

\* dayEvents after sorting and limiting
LimitEvents(sorted, cap) ==
    IF Len(sorted) > cap THEN SubSeq(sorted, 1, cap) ELSE sorted

\* conversion to template events
EventData(ev) ==
    [Summary |-> ev.Summary,
     AllDay  |-> ev.AllDay,
     Time    |-> IF ~ev.AllDay THEN FormatClock(ev.Start.tod) ELSE <<>>]

TemplateEvents(dayEvents) == [i \in 1..Len(dayEvents) |-> EventData(dayEvents[i])]

\* Temperatures with the window closed at its upper end
Temperatures_ClosedWindow(w, currentDate, nw) ==
    LET today            == Date(Year(nw.day), Month(nw.day), Day(nw.day))
        eightDaysFromNow == AddDate(today, 0, 0, 8)
    IN  IF ~w.IsNil /\ currentDate >= today /\ currentDate <= eightDaysFromNow
        THEN LET dayTempValue   == GetDayTemperature(w, currentDate)
                 nightTempValue == GetNightTemperature(w, currentDate)
             IN  IF dayTempValue.num # 0 \/ nightTempValue.num # 0
                 THEN <<FormatTemp(dayTempValue), FormatTemp(nightTempValue)>>
                 ELSE <<<<>>, <<>>>>
        ELSE <<<<>>, <<>>>>

\* Temperatures formatting each mean only when it is not zero
Temperatures_Separate(w, currentDate, nw) ==
    LET today            == Date(Year(nw.day), Month(nw.day), Day(nw.day))
        eightDaysFromNow == AddDate(today, 0, 0, 8)
    IN  IF ~w.IsNil /\ currentDate >= today /\ currentDate < eightDaysFromNow
        THEN LET dayTempValue   == GetDayTemperature(w, currentDate)
                 nightTempValue == GetNightTemperature(w, currentDate)
             IN  <<IF dayTempValue.num # 0 THEN FormatTemp(dayTempValue) ELSE <<>>,
                   IF nightTempValue.num # 0 THEN FormatTemp(nightTempValue) ELSE <<>>>>
        ELSE <<<<>>, <<>>>>

\* Temperatures formatting the two means whatever their values
Temperatures_NoZeroCheck(w, currentDate, nw) ==
    LET today            == Date(Year(nw.day), Month(nw.day), Day(nw.day))
        eightDaysFromNow == AddDate(today, 0, 0, 8)
    IN  IF ~w.IsNil /\ currentDate >= today /\ currentDate < eightDaysFromNow
        THEN <<FormatTemp(GetDayTemperature(w, currentDate)),
               FormatTemp(GetNightTemperature(w, currentDate))>>
        ELSE <<<<>>, <<>>>>

\* the pair <<dayTemp, nightTemp>> of a cell
Temperatures(w, currentDate, nw) ==
    LET today            == Date(Year(nw.day), Month(nw.day), Day(nw.day))
        eightDaysFromNow == AddDate(today, 0, 0, 8)
    IN  IF ~w.IsNil /\ currentDate >= today /\ currentDate < eightDaysFromNow
        THEN LET dayTempValue   == GetDayTemperature(w, currentDate)
                 nightTempValue == GetNightTemperature(w, currentDate)
             IN  IF dayTempValue.num # 0 \/ nightTempValue.num # 0
                 THEN <<FormatTemp(dayTempValue), FormatTemp(nightTempValue)>>
                 ELSE <<<<>>, <<>>>>
        ELSE <<<<>>, <<>>>>

DayData(m, w, cap, currentDate, nw) ==
    LET dateKey   == FormatDate(currentDate)
        dayEvents == LimitEvents(SortEvents(MapGet(m, dateKey)), cap)
        temps     == Temperatures(w, currentDate, nw)
        today     == Date(Year(nw.day), Month(nw.day), Day(nw.day))
    IN  [Date           |-> dateKey,
         DayNum         |-> Itoa(Day(currentDate)),
         MonthShort     |-> MonthShortNames[Month(currentDate)],
         IsToday        |-> IsToday(currentDate, nw),
         IsPast         |-> currentDate < today,
         IsWeekend      |-> IsWeekend(currentDate),
         IsCurrentMonth |-> Month(currentDate) = Month(nw.day),
         DayTemp        |-> temps[1],
         NightTemp      |-> temps[2],
         Events         |-> TemplateEvents(dayEvents)]

\* one week: for i := 0; i < 7; i++ { ...; currentDate += 1 day }
RECURSIVE BuildWeek(_, _, _, _, _, _, _)
BuildWeek(m, w, cap, currentDate, nw, i, days) ==
    IF i < 7
    THEN BuildWeek(m, w, cap, AddDate(currentDate, 0, 0, 1), nw, i + 1,
                   Append(days, DayData(m, w, cap, currentDate, nw)))
    ELSE days

\* BuildWeeks starting each week eight days after the previous one
RECURSIVE BuildWeeks_SkipDay(_, _, _, _, _, _, _)
BuildWeeks_SkipDay(m, w, cap, currentDate, endDate, nw, weeks) ==
    IF currentDate <= endDate
    THEN BuildWeeks_SkipDay(m, w, cap, AddDate(currentDate, 0, 0, 8), endDate, nw,
                    Append(weeks,
                           [Days |-> BuildWeek(m, w, cap, currentDate, nw, 0, <<>>)]))
    ELSE weeks

\* for currentDate.Before(endDate) || currentDate.Equal(endDate)
RECURSIVE BuildWeeks(_, _, _, _, _, _, _)
BuildWeeks(m, w, cap, currentDate, endDate, nw, weeks) ==
    IF currentDate <= endDate
    THEN BuildWeeks(m, w, cap, AddDate(currentDate, 0, 0, 7), endDate, nw,
                    Append(weeks,
                           [Days |-> BuildWeek(m, w, cap, currentDate, nw, 0, <<>>)]))
    ELSE weeks

\* the body of PrepareMonthData: what it reads and what it returns
MonthData(nw, w, evs, cap) ==
    LET m == BuildEventsByDate(evs, 1, EmptyMap)
    IN  /\ now' = nw
        /\ weatherData' = w
        /\ events' = evs
        /\ maxEventsPerDay' = cap
        /\ eventsByDate' = m
        /\ data' = BuildWeeks(m, w, cap, GridStartDate(nw), GridEndDate(nw), nw, <<>>)

PrepareMonthData(nw, w, evs, cap) ==
    /\ pc' = "prepared"
    /\ MonthData(nw, w, evs, cap)
    /\ UNCHANGED textVars
    /\ UNCHANGED runVars
    /\ UNCHANGED alarmVars
    /\ UNCHANGED drawVars
    /\ UNCHANGED fetchVars
    /\ UNCHANGED batteryVars
    /\ UNCHANGED sortVars

----------------------------------------------------------------------------
(* internal/render/graphics.go: truncateText.  A string is its sequence of  *)
(* bytes; the two bytes "C3" "A9" are the UTF-8 encoding of the rune "é".   *)
(* Widths handed to truncateText are in half pixels (a float64 compares     *)
(* with whole-pixel measures like the nearest half below it).               *)

Px(n) == 2 * n

RuneError == "FFFD"

\* for _, c := range s: UTF-8 decoding, an invalid byte gives U+FFFD
RECURSIVE Decode(_, _)
Decode(s, i) ==
    IF i > Len(s) THEN <<>>
    ELSE IF s[i] = "C3" /\ i < Len(s) /\ s[i + 1] = "A9"
         THEN <<"é">> \o Decode(s, i + 2)
    ELSE IF s[i] \in {"C3", "A9"}
         THEN <<RuneError>> \o Decode(s, i + 1)
    ELSE <<s[i]>> \o Decode(s, i + 1)

\* font.MeasureString: glyph advances plus kerning of adjacent pairs, 26.6
RECURSIVE Advance(_, _, _)
Advance(f, runes, i) ==
    IF i > Len(runes) THEN 0
    ELSE (IF i > 1 THEN f.kern[<<runes[i - 1], runes[i]>>] ELSE 0)
         + f.adv[runes[i]] + Advance(f, runes, i + 1)

\* dc.MeasureString(s): the advance shifted right by 6, in whole pixels
MeasureString(f, s) == FloorDiv(Advance(f, Decode(s, 1), 1), 64)

Ellipsis == <<".", ".", ".">>

\* TruncateLoop measuring the prefix without the ellipsis
RECURSIVE TruncateLoop_PrefixOnly(_, _, _, _)
TruncateLoop_PrefixOnly(f, t, w, i) ==
    IF i > 0
    THEN IF Px(MeasureString(f, SubSeq(t, 1, i))) <= w
         THEN SubSeq(t, 1, i) \o Ellipsis
         ELSE TruncateLoop_PrefixOnly(f, t, w, i - 1)
    ELSE Ellipsis

\* TruncateLoop returning the fitting prefix without the ellipsis
RECURSIVE TruncateLoop_NoEllipsis(_, _, _, _)
TruncateLoop_NoEllipsis(f, t, w, i) ==
    IF i > 0
    THEN IF Px(MeasureString(f, SubSeq(t, 1, i) \o Ellipsis)) <= w
         THEN SubSeq(t, 1, i)
         ELSE TruncateLoop_NoEllipsis(f, t, w, i - 1)
    ELSE Ellipsis

\* TruncateLoop returning the shortest prefix that fits with the ellipsis
TruncateLoop_Shortest(f, t, w, i) ==
    LET fitting == { k \in 1..i : Px(MeasureString(f, SubSeq(t, 1, k) \o Ellipsis)) <= w }
    IN  IF fitting = {} THEN Ellipsis
        ELSE SubSeq(t, 1, CHOOSE k \in fitting : \A j \in fitting : k <= j) \o Ellipsis

\* for i := len(text); i > 0; i--
RECURSIVE TruncateLoop(_, _, _, _)
TruncateLoop(f, t, w, i) ==
    IF i > 0
    THEN LET candidate == SubSeq(t, 1, i) \o Ellipsis
         IN  IF Px(MeasureString(f, candidate)) <= w
             THEN candidate
             ELSE TruncateLoop(f, t, w, i - 1)
    ELSE Ellipsis

\* truncateText keeping a text only when it is strictly narrower than maxWidth
truncateText_Strict(f, t, w) ==
    IF Px(MeasureString(f, t)) < w THEN t
    ELSE IF w <= Px(MeasureString(f, Ellipsis)) THEN Ellipsis
    ELSE TruncateLoop(f, t, w, Len(t))

truncateText(f, t, w) ==
    IF Px(MeasureString(f, t)) <= w THEN t
    ELSE IF w <= Px(MeasureString(f, Ellipsis)) THEN Ellipsis
    ELSE TruncateLoop(f, t, w, Len(t))

TruncateText(t, w) ==
    /\ pc' = "truncated"
    /\ text' = t
    /\ maxWidth' = w
    /\ truncated' = truncateText(font, t, w)
    /\ retruncated' = <<>>
    /\ UNCHANGED <<font>>
    /\ UNCHANGED gridVars
    /\ UNCHANGED runVars
    /\ UNCHANGED alarmVars
    /\ UNCHANGED drawVars
    /\ UNCHANGED fetchVars
    /\ UNCHANGED batteryVars
    /\ UNCHANGED sortVars

\* a second call, on the string the first call returned and the same width
TruncateAgain ==
    /\ pc = "truncated"
    /\ pc' = "retruncated"
    /\ retruncated' = truncateText(font, truncated, maxWidth)
    /\ UNCHANGED <<font, text, maxWidth, truncated>>
    /\ UNCHANGED gridVars
    /\ UNCHANGED runVars
    /\ UNCHANGED alarmVars
    /\ UNCHANGED drawVars
    /\ UNCHANGED fetchVars
    /\ UNCHANGED batteryVars
    /\ UNCHANGED sortVars

----------------------------------------------------------------------------
(* The alarm time of handlePiSugar (internal/app/app.go) and of             *)
(* setPiSugarAlarm (main.go).  An instant is its number of seconds since    *)
(* 1970-01-01 00:00:00 UTC; the fraction of a second of time.Now() is left  *)
(* out.                                                                     *)

Hour == 3600
SecondsPerDay == 86400

\* days from January 1, year 1, the zero time, to 1970-01-01
unixToInternalDays == 1969 * 365 + 1969 \div 4 - 1969 \div 100 + 1969 \div 400

\* t.Truncate(d): t rounded down to a multiple of d since the zero time;
\* the remainder of t + unixToInternalDays * SecondsPerDay by d is computed
\* from the remainders of its parts
Truncate(t, d) ==
    IF d <= 0 THEN t
    ELSE t - (((t % d) + (((unixToInternalDays % d) * (SecondsPerDay % d)) % d)) % d)

\* time.Now().Add(time.Hour).Truncate(time.Hour)
NextHour(t) == Truncate(t + Hour, Hour)

Pad2(n) == <<DigitChars[(n \div 10) + 1], DigitChars[(n % 10) + 1]>>

\* t.Format("2006-01-02 15:04:05") in a location off seconds east of UTC
FormatDateTime(t, off) ==
    LET local == t + off
        day   == FloorDiv(local, SecondsPerDay)
        sec   == local - day * SecondsPerDay
        y     == Year(day)
    IN  Pad2(y \div 100) \o Pad2(y % 100) \o <<"-">> \o Pad2(Month(day)) \o <<"-">>
        \o Pad2(Day(day)) \o <<" ">> \o Pad2(sec \div Hour) \o <<":">>
        \o Pad2((sec % Hour) \div 60) \o <<":">> \o Pad2(sec % 60)

\* alarmTime := nextHour.Format("2006-01-02 15:04:05")
AlarmArg(t, off) == FormatDateTime(NextHour(t), off)

\* setPiSugarAlarm(): sudo pisugar-cli --set-alarm alarmTime
setPiSugarAlarm(ok) ==
    /\ pc = "start"
    /\ pc' = "alarm set"
    /\ alarmTime' = AlarmArg(clock, zone)
    /\ cmds' = Append(cmds, [cmd |-> "set-alarm", ok |-> ok])
    /\ result' = IF ok THEN "nil" ELSE "alarm"
    /\ UNCHANGED <<clock, zone>>
    /\ UNCHANGED drawVars
    /\ UNCHANGED fetchVars
    /\ UNCHANGED batteryVars
    /\ UNCHANGED sortVars
    /\ UNCHANGED <<flags, calendars, fetched, allEvents, output, log>>
    /\ UNCHANGED <<gridVars, textVars>>

----------------------------------------------------------------------------
(* internal/app/app.go: Run and its helpers.  An error value is modelled by  *)
(* the name of the step that failed, "nil" is no error.                     *)

NoFile == [kind |-> "none"]

\* the name under which a calendar is fetched: its Name, its ID when empty
SourceName(calCfg) == IF calCfg.Name = <<>> THEN calCfg.ID ELSE calCfg.Name

\* the events FetchEventsForMonth returns for a calendar, from its items
SourceEvents(calCfg, items) ==
    [i \in DOMAIN items |->
        [Summary |-> items[i].Summary, AllDay |-> items[i].AllDay,
         Start |-> items[i].Start, End |-> items[i].End,
         CalendarName |-> SourceName(calCfg)]]

\* fetchAllCalendarEvents giving up at the first calendar that fails
RECURSIVE FetchLoop_FailFast(_, _, _, _)
FetchLoop_FailFast(cals, outcomes, i, acc) ==
    IF i > Len(cals) THEN [events |-> acc, err |-> "nil"]
    ELSE IF ~outcomes[i].ok THEN [events |-> <<>>, err |-> "fetch"]
    ELSE FetchLoop_FailFast(cals, outcomes, i + 1,
                            acc \o SourceEvents(cals[i], outcomes[i].items))

\* for _, calCfg := range cfg.Calendar.Calendars, then return allEvents, nil
RECURSIVE FetchLoop(_, _, _, _)
FetchLoop(cals, outcomes, i, acc) ==
    IF i > Len(cals) THEN [events |-> acc, err |-> "nil"]
    ELSE IF ~outcomes[i].ok THEN FetchLoop(cals, outcomes, i + 1, acc)
    ELSE FetchLoop(cals, outcomes, i + 1,
                   acc \o SourceEvents(cals[i], outcomes[i].items))

fetchAllCalendarEvents(cals, outcomes) == FetchLoop(cals, outcomes, 1, <<>>)

\* return err
Return(err) ==
    /\ pc' = "returned"
    /\ result' = err
    /\ log' = IF err = "nil" THEN log ELSE log \cup {err}

\* calendar.NewClient
Run_NewClient(ok) ==
    /\ pc = "Run"
    /\ IF ok THEN pc' = "weather" /\ UNCHANGED <<result, log>>
             ELSE Return("client")
    /\ UNCHANGED <<flags, calendars, fetched, allEvents, output, cmds>>
    /\ UNCHANGED <<gridVars, textVars>>
    /\ UNCHANGED alarmVars
    /\ UNCHANGED drawVars
    /\ UNCHANGED fetchVars
    /\ UNCHANGED batteryVars
    /\ UNCHANGED sortVars

\* weather.Fetch failing being returned by Run
Run_fetchWeather_Fatal(ok, w) ==
    /\ pc = "weather"
    /\ weatherData' = IF ok THEN w ELSE NilForecast
    /\ IF ok THEN pc' = "fetch" /\ UNCHANGED <<result, log>>
             ELSE Return("weather")
    /\ UNCHANGED <<flags, calendars, fetched, allEvents, output, cmds>>
    /\ UNCHANGED <<now, events, maxEventsPerDay, eventsByDate, data, textVars>>
    /\ UNCHANGED alarmVars
    /\ UNCHANGED drawVars
    /\ UNCHANGED fetchVars
    /\ UNCHANGED batteryVars
    /\ UNCHANGED sortVars

\* weatherData, err := fetchWeather(cfg): a failure is logged, the forecast
\* is nil then
Run_fetchWeather(ok, w) ==
    /\ pc = "weather"
    /\ pc' = "fetch"
    /\ weatherData' = IF ok THEN w ELSE NilForecast
    /\ log' = IF ok THEN log ELSE log \cup {"weather"}
    /\ UNCHANGED <<flags, calendars, fetched, allEvents, output, cmds, result>>
    /\ UNCHANGED <<now, events, maxEventsPerDay, eventsByDate, data, textVars>>
    /\ UNCHANGED alarmVars
    /\ UNCHANGED drawVars
    /\ UNCHANGED fetchVars
    /\ UNCHANGED batteryVars
    /\ UNCHANGED sortVars

\* allEvents, err := fetchAllCalendarEvents(ctx, cfg, calClient)
Run_fetchAllCalendarEvents(outcomes) ==
    LET r == fetchAllCalendarEvents(calendars, outcomes)
    IN  /\ pc = "fetch"
        /\ fetched' = outcomes
        /\ allEvents' = r.events
        /\ IF r.err # "nil"
           THEN Return(r.err)
           ELSE /\ pc' = "html"
                /\ result' = result
                /\ log' = IF \E j \in DOMAIN outcomes : ~outcomes[j].ok
                         THEN log \cup {"source"} ELSE log
        /\ UNCHANGED <<flags, calendars, output, cmds>>
        /\ UNCHANGED <<gridVars, textVars>>
        /\ UNCHANGED alarmVars
        /\ UNCHANGED drawVars
        /\ UNCHANGED fetchVars
        /\ UNCHANGED batteryVars
        /\ UNCHANGED sortVars

\* html, err := generateHTML(cfg, weatherData, allEvents), then the dump of
\* the HTML when dumpHTML is set
Run_generateHTML(nw, cap) ==
    /\ pc = "html"
    /\ MonthData(nw, weatherData, allEvents, cap)
    /\ \E ok \in BOOLEAN, dumpOk \in BOOLEAN :
          IF ~ok THEN Return("html")
          ELSE IF flags.dumpHTML
               THEN Return(IF dumpOk THEN "nil" ELSE "dump")
               ELSE pc' = "png" /\ UNCHANGED <<result, log>>
    /\ UNCHANGED <<flags, calendars, fetched, allEvents, output, cmds>>
    /\ UNCHANGED textVars
    /\ UNCHANGED alarmVars
    /\ UNCHANGED drawVars
    /\ UNCHANGED fetchVars
    /\ UNCHANGED batteryVars
    /\ UNCHANGED sortVars

\* err = generatePNG(ctx, cfg, html), then the return when noShutdown is set
Run_generatePNG(ok) ==
    /\ pc = "png"
    /\ output' = IF ok THEN [kind |-> "calendar"] ELSE output
    /\ IF ~ok THEN Return("png")
       ELSE IF flags.noShutdown
            THEN Return("nil")
            ELSE pc' = "pisugar" /\ UNCHANGED <<result, log>>
    /\ UNCHANGED <<flags, calendars, fetched, allEvents, cmds>>
    /\ UNCHANGED <<gridVars, textVars>>
    /\ UNCHANGED alarmVars
    /\ UNCHANGED drawVars
    /\ UNCHANGED fetchVars
    /\ UNCHANGED batteryVars
    /\ UNCHANGED sortVars

\* Run returning to shut down after a failed alarm
Run_handlePiSugar_Continue(ok) ==
    /\ pc = "pisugar"
    /\ cmds' = Append(cmds, [cmd |-> "set-alarm", ok |-> ok])
    /\ pc' = "shutdown"
    /\ log' = IF ok THEN log ELSE log \cup {"alarm"}
    /\ UNCHANGED <<flags, calendars, fetched, allEvents, output, result>>
    /\ UNCHANGED <<gridVars, textVars>>
    /\ alarmTime' = AlarmArg(clock, zone)
    /\ UNCHANGED <<clock, zone>>
    /\ UNCHANGED drawVars
    /\ UNCHANGED fetchVars
    /\ UNCHANGED batteryVars
    /\ UNCHANGED sortVars

\* err = handlePiSugar(ctx, cfg): pisugar-cli --set-alarm
Run_handlePiSugar(ok) ==
    /\ pc = "pisugar"
    /\ cmds' = Append(cmds, [cmd |-> "set-alarm", ok |-> ok])
    /\ IF ok THEN pc' = "shutdown" /\ UNCHANGED <<result, log>>
             ELSE Return("alarm")
    /\ UNCHANGED <<flags, calendars, fetched, allEvents, output>>
    /\ UNCHANGED <<gridVars, textVars>>
    /\ alarmTime' = AlarmArg(clock, zone)
    /\ UNCHANGED <<clock, zone>>
    /\ UNCHANGED drawVars
    /\ UNCHANGED fetchVars
    /\ UNCHANGED batteryVars
    /\ UNCHANGED sortVars

\* exec.Command("sudo", "shutdown", "-h", "now").Run()
Run_shutdown(ok) ==
    /\ pc = "shutdown"
    /\ cmds' = Append(cmds, [cmd |-> "shutdown", ok |-> ok])
    /\ Return(IF ok THEN "nil" ELSE "shutdown")
    /\ UNCHANGED <<flags, calendars, fetched, allEvents, output>>
    /\ UNCHANGED <<gridVars, textVars>>
    /\ UNCHANGED alarmVars
    /\ UNCHANGED drawVars
    /\ UNCHANGED fetchVars
    /\ UNCHANGED batteryVars
    /\ UNCHANGED sortVars

----------------------------------------------------------------------------
(* main.go: main and renderError.  The process ends with result "exit0"     *)
(* (return from main) or "exit1" (log.Fatalf).                              *)

\* the keys of errorDetails
DebugFields == {"Error", "Time", "Args", "Go Version", "OS/Arch"}

\* the file RenderErrorToPNG writes for the error err
ErrorPNG(err) == [kind |-> "error", msg |-> err, fields |-> DebugFields]

\* renderError(ctx, cfg, err): a failure of RenderErrorToPNG is only logged
renderError(err, renderOk) ==
    output' = IF renderOk THEN ErrorPNG(err) ELSE output

\* return from main
Exit ==
    /\ pc' = "exited"
    /\ result' = "exit0"
    /\ UNCHANGED <<log, output>>

\* log.Fatalf without renderError
Fatalf(err) ==
    /\ pc' = "exited"
    /\ result' = "exit1"
    /\ log' = log \cup {err}

\* renderError(ctx, cfg, err); log.Fatalf(...)
RenderErrorAndFatalf(err) ==
    /\ Fatalf(err)
    /\ \E renderOk \in BOOLEAN : renderError(err, renderOk)

\* cfg, err := config.Load(*configPath)
main_Load(ok) ==
    /\ pc = "main"
    /\ IF ok THEN pc' = "client" /\ UNCHANGED <<result, log>>
             ELSE Fatalf("config")
    /\ UNCHANGED <<flags, calendars, fetched, allEvents, output, cmds>>
    /\ UNCHANGED <<gridVars, textVars>>
    /\ UNCHANGED alarmVars
    /\ UNCHANGED drawVars
    /\ UNCHANGED fetchVars
    /\ UNCHANGED batteryVars
    /\ UNCHANGED sortVars

\* calClient, err := calendar.NewClient(...)
main_NewClient(ok) ==
    /\ pc = "client"
    /\ IF ok
       THEN /\ pc' = IF flags.listCalendars THEN "list" ELSE "weather"
            /\ UNCHANGED <<result, log, output>>
       ELSE RenderErrorAndFatalf("client")
    /\ UNCHANGED <<flags, calendars, fetched, allEvents, cmds>>
    /\ UNCHANGED <<gridVars, textVars>>
    /\ UNCHANGED alarmVars
    /\ UNCHANGED drawVars
    /\ UNCHANGED fetchVars
    /\ UNCHANGED batteryVars
    /\ UNCHANGED sortVars

\* if *listCalendars { calendars, err := calClient.ListCalendars() ... return }
main_ListCalendars(ok) ==
    /\ pc = "list"
    /\ IF ok THEN Exit ELSE RenderErrorAndFatalf("list")
    /\ UNCHANGED <<flags, calendars, fetched, allEvents, cmds>>
    /\ UNCHANGED <<gridVars, textVars>>
    /\ UNCHANGED alarmVars
    /\ UNCHANGED drawVars
    /\ UNCHANGED fetchVars
    /\ UNCHANGED batteryVars
    /\ UNCHANGED sortVars

\* weatherData, err := weather.Fetch(...): a failure is a warning
main_Fetch(ok, w) ==
    /\ pc = "weather"
    /\ pc' = "fetch"
    /\ weatherData' = IF ok THEN w ELSE NilForecast
    /\ log' = IF ok THEN log ELSE log \cup {"weather"}
    /\ UNCHANGED <<flags, calendars, fetched, allEvents, output, cmds, result>>
    /\ UNCHANGED <<now, events, maxEventsPerDay, eventsByDate, data, textVars>>
    /\ UNCHANGED alarmVars
    /\ UNCHANGED drawVars
    /\ UNCHANGED fetchVars
    /\ UNCHANGED batteryVars
    /\ UNCHANGED sortVars

\* for _, calCfg := range cfg.Calendar.Calendars: a failure is a warning
main_FetchEvents(outcomes) ==
    /\ pc = "fetch"
    /\ pc' = "html"
    /\ fetched' = outcomes
    /\ allEvents' = FetchLoop(calendars, outcomes, 1, <<>>).events
    /\ log' = IF \E j \in DOMAIN outcomes : ~outcomes[j].ok
              THEN log \cup {"source"} ELSE log
    /\ UNCHANGED <<flags, calendars, output, cmds, result>>
    /\ UNCHANGED <<gridVars, textVars>>
    /\ UNCHANGED alarmVars
    /\ UNCHANGED drawVars
    /\ UNCHANGED fetchVars
    /\ UNCHANGED batteryVars
    /\ UNCHANGED sortVars

\* PrepareMonthData, the template path, RenderHTML, and the dump of the
\* HTML when dumpHTML is set
main_RenderHTML(nw, cap) ==
    /\ pc = "html"
    /\ MonthData(nw, weatherData, allEvents, cap)
    /\ \E err \in {"nil", "template path", "template missing", "html"}, dumpOk \in BOOLEAN :
          IF err # "nil" THEN RenderErrorAndFatalf(err)
          ELSE IF flags.dumpHTML
               THEN IF dumpOk THEN Exit ELSE RenderErrorAndFatalf("dump")
               ELSE pc' = "png" /\ UNCHANGED <<result, log, output>>
    /\ UNCHANGED <<flags, calendars, fetched, allEvents, cmds>>
    /\ UNCHANGED textVars
    /\ UNCHANGED alarmVars
    /\ UNCHANGED drawVars
    /\ UNCHANGED fetchVars
    /\ UNCHANGED batteryVars
    /\ UNCHANGED sortVars

\* render.HTMLToPNG(...), then the end of main when dryRun is set
main_HTMLToPNG(ok) ==
    /\ pc = "png"
    /\ IF ~ok THEN RenderErrorAndFatalf("png")
       ELSE /\ output' = [kind |-> "calendar"]
            /\ IF flags.noShutdown
               THEN pc' = "exited" /\ result' = "exit0" /\ UNCHANGED log
               ELSE pc' = "alarm" /\ UNCHANGED <<result, log>>
    /\ UNCHANGED <<flags, calendars, fetched, allEvents, cmds>>
    /\ UNCHANGED <<gridVars, textVars>>
    /\ UNCHANGED alarmVars
    /\ UNCHANGED drawVars
    /\ UNCHANGED fetchVars
    /\ UNCHANGED batteryVars
    /\ UNCHANGED sortVars

\* setPiSugarAlarm() with a failure ending the run, as in app.Run
main_setPiSugarAlarm_Fatal(ok) ==
    /\ pc = "alarm"
    /\ cmds' = Append(cmds, [cmd |-> "set-alarm", ok |-> ok])
    /\ IF ok THEN pc' = "shutdown" /\ UNCHANGED <<log, output, result>>
       ELSE RenderErrorAndFatalf("alarm")
    /\ UNCHANGED <<flags, calendars, fetched, allEvents>>
    /\ UNCHANGED <<gridVars, textVars>>
    /\ alarmTime' = AlarmArg(clock, zone)
    /\ UNCHANGED <<clock, zone>>
    /\ UNCHANGED drawVars
    /\ UNCHANGED fetchVars
    /\ UNCHANGED batteryVars
    /\ UNCHANGED sortVars

\* setPiSugarAlarm(): a failure is rendered and logged as a warning
main_setPiSugarAlarm(ok) ==
    /\ pc = "alarm"
    /\ pc' = "shutdown"
    /\ cmds' = Append(cmds, [cmd |-> "set-alarm", ok |-> ok])
    /\ IF ok THEN UNCHANGED <<log, output>>
       ELSE /\ log' = log \cup {"alarm"}
            /\ \E renderOk \in BOOLEAN : renderError("alarm", renderOk)
    /\ UNCHANGED <<flags, calendars, fetched, allEvents, result>>
    /\ UNCHANGED <<gridVars, textVars>>
    /\ alarmTime' = AlarmArg(clock, zone)
    /\ UNCHANGED <<clock, zone>>
    /\ UNCHANGED drawVars
    /\ UNCHANGED fetchVars
    /\ UNCHANGED batteryVars
    /\ UNCHANGED sortVars

\* exec.Command("sudo", "shutdown", "-h", "now").Run()
main_shutdown(ok) ==
    /\ pc = "shutdown"
    /\ cmds' = Append(cmds, [cmd |-> "shutdown", ok |-> ok])
    /\ IF ok THEN Exit ELSE RenderErrorAndFatalf("shutdown")
    /\ UNCHANGED <<flags, calendars, fetched, allEvents>>
    /\ UNCHANGED <<gridVars, textVars>>
    /\ UNCHANGED alarmVars
    /\ UNCHANGED drawVars
    /\ UNCHANGED fetchVars
    /\ UNCHANGED batteryVars
    /\ UNCHANGED sortVars

----------------------------------------------------------------------------
(* internal/render/graphics.go: RenderCalendarToPNG.  Lengths are in whole  *)
(* pixels: the canvas sizes taken make colWidth and rowHeight whole         *)
(* numbers, so that the float64 arithmetic of the code is exact.  The       *)
(* canvas is the list of the cells drawn, each with its event rows; the     *)
(* header and the weekday row do not depend on the grid and are left out.   *)

\* the y returned by drawWeekdayHeaders(60): 60 + headerHeight
weekdayY == 60 + 35

eventHeight == 22
gap == 2
eventPadding == 6

\* the row of one event: the text drawn and where
EventRow(f, event, i, x, currentY, width) ==
    IF event.AllDay
    THEN [index |-> i, y |-> currentY, time |-> <<>>,
          text |-> truncateText(f, event.Summary,
                                Px(width - 2 * eventPadding - 12))]
    ELSE [index |-> i, y |-> currentY, time |-> event.Time,
          text |-> truncateText(f, event.Summary,
                                Px(width - eventPadding - 6
                                   - MeasureString(f, event.Time) - 6 - eventPadding))]

\* the loop of drawEvents stopping only below the bottom of the cell
RECURSIVE DrawEventsLoop_TopOnly(_, _, _, _, _, _, _, _)
DrawEventsLoop_TopOnly(f, evs, i, x, currentY, y, width, height) ==
    IF i > Len(evs) THEN <<>>
    ELSE IF currentY > y + height THEN <<>>
    ELSE <<EventRow(f, evs[i], i, x, currentY, width)>>
         \o DrawEventsLoop_TopOnly(f, evs, i + 1, x, currentY + eventHeight + gap,
                                   y, width, height)

\* for _, event := range day.Events { if currentY+eventHeight > y+height
\* { break }; ...; currentY += eventHeight + gap }
RECURSIVE DrawEventsLoop(_, _, _, _, _, _, _, _)
DrawEventsLoop(f, evs, i, x, currentY, y, width, height) ==
    IF i > Len(evs) THEN <<>>
    ELSE IF currentY + eventHeight > y + height THEN <<>>
    ELSE <<EventRow(f, evs[i], i, x, currentY, width)>>
         \o DrawEventsLoop(f, evs, i + 1, x, currentY + eventHeight + gap,
                           y, width, height)

\* drawEvents(day, x, y, width, height, isPast): the rows drawn
drawEvents(f, day, x, y, width, height) ==
    IF Len(day.Events) = 0 THEN <<>>
    ELSE DrawEventsLoop(f, day.Events, 1, x, y, y, width, height)

\* drawDay(day, x, y, width, height): the cell drawn
drawDay(f, day, weekIdx, dayIdx, x, y, width, height) ==
    [week |-> weekIdx, day |-> dayIdx, date |-> day.Date,
     x |-> x, y |-> y, width |-> width, height |-> height,
     rows |-> drawEvents(f, day, x, y + 40, width, height - 40)]

\* for dayIdx, day := range week.Days
RECURSIVE DrawWeek(_, _, _, _, _, _, _)
DrawWeek(f, week, weekIdx, dayIdx, rowY, colWidth, rowHeight) ==
    IF dayIdx >= Len(week.Days) THEN <<>>
    ELSE <<drawDay(f, week.Days[dayIdx + 1], weekIdx, dayIdx,
                   dayIdx * colWidth, rowY, colWidth, rowHeight)>>
         \o DrawWeek(f, week, weekIdx, dayIdx + 1, rowY, colWidth, rowHeight)

\* for weekIdx, week := range data.Weeks
RECURSIVE DrawWeeks(_, _, _, _, _, _)
DrawWeeks(f, weeks, weekIdx, startY, colWidth, rowHeight) ==
    IF weekIdx >= Len(weeks) THEN <<>>
    ELSE DrawWeek(f, weeks[weekIdx + 1], weekIdx, 0,
                  startY + weekIdx * rowHeight, colWidth, rowHeight)
         \o DrawWeeks(f, weeks, weekIdx + 1, startY, colWidth, rowHeight)

\* drawCalendarGrid(data, startY) on a renderer of the given size
drawCalendarGrid(f, width, height, d, startY) ==
    LET numWeeks == Len(d.Weeks)
    IN  IF numWeeks = 0 THEN <<>>
        ELSE DrawWeeks(f, d.Weeks, 0, startY,
                       width \div 7, (height - startY) \div numWeeks)

\* RenderCalendarToPNG(data, outputPath): the renderer takes the width and
\* the height as they are, the error returned is the one of savePNG
RenderCalendarToPNG(d, saveOk) ==
    /\ pc = "start"
    /\ pc' = "rendered"
    /\ tmpl' = d
    /\ canvas' = drawCalendarGrid(font, d.Width, d.Height, d, weekdayY)
    /\ renderErr' = IF saveOk THEN "nil" ELSE "save"
    /\ output' = IF saveOk THEN [kind |-> "calendar"] ELSE output
    /\ UNCHANGED <<flags, calendars, fetched, allEvents, cmds, log, result>>
    /\ UNCHANGED <<gridVars, textVars>>
    /\ UNCHANGED alarmVars
    /\ UNCHANGED fetchVars
    /\ UNCHANGED batteryVars
    /\ UNCHANGED sortVars

----------------------------------------------------------------------------
(* internal/calendar/calendar.go: FetchEventsForMonth.  The strings of the  *)
(* provider are sequences of characters; the location of the client is the  *)
(* fixed offset zone; seconds are read and written but not kept.            *)

\* the zero time.Time: 0001-01-01 00:00 UTC
ZeroTime == [day |-> DaysFromCivil(1, 1, 1), tod |-> 0]

IsDigit(c) == \E i \in 1..10 : DigitChars[i] = c

DigitVal(c) == (CHOOSE i \in 1..10 : DigitChars[i] = c) - 1

\* the number written by the characters i..j of str, all of them digits
RECURSIVE Atoi(_, _, _)
Atoi(str, i, j) ==
    IF j < i THEN 0 ELSE 10 * Atoi(str, i, j - 1) + DigitVal(str[j])

AllDigits(str, i, j) == \A k \in i..j : IsDigit(str[k])

\* the date at the start of str in the layout 2006-01-02: ok is false when
\* the characters do not follow the layout or the day is not in the month
ParseDatePart(str) ==
    IF /\ Len(str) >= 10
       /\ AllDigits(str, 1, 4) /\ str[5] = "-"
       /\ AllDigits(str, 6, 7) /\ str[8] = "-"
       /\ AllDigits(str, 9, 10)
    THEN LET y == Atoi(str, 1, 4)
             m == Atoi(str, 6, 7)
             d == Atoi(str, 9, 10)
         IN  IF m >= 1 /\ m <= 12 /\ d >= 1 /\ d <= DaysIn(y, m)
             THEN [ok |-> TRUE, day |-> DaysFromCivil(y, m, d)]
             ELSE [ok |-> FALSE, day |-> 0]
    ELSE [ok |-> FALSE, day |-> 0]

\* time.Parse("2006-01-02", str): midnight UTC of the date
ParseDate(str) ==
    LET p == ParseDatePart(str)
    IN  IF Len(str) = 10 /\ p.ok
        THEN [ok |-> TRUE, t |-> [day |-> p.day, tod |-> 0]]
        ELSE [ok |-> FALSE, t |-> ZeroTime]

\* the offset, in minutes, written from character i of str to its end:
\* Z or +hh:mm or -hh:mm
ParseOffset(str, i) ==
    IF Len(str) = i /\ str[i] = "Z" THEN [ok |-> TRUE, off |-> 0]
    ELSE IF /\ Len(str) = i + 5
            /\ str[i] \in {"+", "-"}
            /\ AllDigits(str, i + 1, i + 2) /\ str[i + 3] = ":"
            /\ AllDigits(str, i + 4, i + 5)
            /\ Atoi(str, i + 1, i + 2) < 24
            /\ Atoi(str, i + 4, i + 5) < 60
         THEN LET v == Atoi(str, i + 1, i + 2) * 60 + Atoi(str, i + 4, i + 5)
              IN  [ok |-> TRUE, off |-> IF str[i] = "-" THEN 0 - v ELSE v]
         ELSE [ok |-> FALSE, off |-> 0]

\* a time of day moved by some minutes, over the day boundary when needed
Shift(t, minutes) ==
    LET total == t.tod + minutes
    IN  [day |-> t.day + FloorDiv(total, 1440),
         tod |-> total - 1440 * FloorDiv(total, 1440)]

\* time.Parse(time.RFC3339, str) followed by In(c.location): the wall time
\* in the location of the client, loc minutes east of UTC
ParseRFC3339In(str, loc) ==
    LET p == ParseDatePart(str)
    IN  IF /\ p.ok
           /\ Len(str) >= 20
           /\ str[11] = "T"
           /\ AllDigits(str, 12, 13) /\ str[14] = ":"
           /\ AllDigits(str, 15, 16) /\ str[17] = ":"
           /\ AllDigits(str, 18, 19)
           /\ Atoi(str, 12, 13) < 24
           /\ Atoi(str, 15, 16) < 60
           /\ Atoi(str, 18, 19) < 60
           /\ ParseOffset(str, 20).ok
        THEN [ok |-> TRUE,
              t  |-> Shift([day |-> p.day,
                            tod |-> Atoi(str, 12, 13) * 60 + Atoi(str, 15, 16)],
                           loc - ParseOffset(str, 20).off)]
        ELSE [ok |-> FALSE, t |-> ZeroTime]

\* t.Format(time.RFC3339) of a wall time in a location loc minutes east
FormatRFC3339(t, loc) ==
    LET y   == Year(t.day)
        abs == IF loc < 0 THEN 0 - loc ELSE loc
    IN  Pad2(y \div 100) \o Pad2(y % 100) \o <<"-">> \o Pad2(Month(t.day))
        \o <<"-">> \o Pad2(Day(t.day)) \o <<"T">> \o Pad2(t.tod \div 60)
        \o <<":">> \o Pad2(t.tod % 60) \o <<":", "0", "0">>
        \o (IF loc = 0 THEN <<"Z">>
            ELSE <<IF loc < 0 THEN "-" ELSE "+">> \o Pad2(abs \div 60)
                 \o <<":">> \o Pad2(abs % 60))

\* startDate: the Monday of the week of the first of the month
FetchStartDate(nw) ==
    LET firstOfMonth == Date(Year(nw.day), Month(nw.day), 1)
        weekday      == IF Weekday(firstOfMonth) = 0 THEN 7 ELSE Weekday(firstOfMonth)
    IN  AddDate(firstOfMonth, 0, 0, -(weekday - 1))

\* endDate with the last Sunday taken as the end of the window
FetchEndDate_LastSunday(nw) ==
    LET firstOfMonth == Date(Year(nw.day), Month(nw.day), 1)
        lastOfMonth  == AddDate(firstOfMonth, 0, 1, -1)
        weekday      == IF Weekday(lastOfMonth) = 0 THEN 7 ELSE Weekday(lastOfMonth)
    IN  AddDate(lastOfMonth, 0, 0, 7 - weekday)

\* endDate: the day after the Sunday of the week of the last of the month
FetchEndDate(nw) ==
    LET firstOfMonth == Date(Year(nw.day), Month(nw.day), 1)
        lastOfMonth  == AddDate(firstOfMonth, 0, 1, -1)
        weekday      == IF Weekday(lastOfMonth) = 0 THEN 7 ELSE Weekday(lastOfMonth)
    IN  AddDate(lastOfMonth, 0, 0, 7 - weekday + 1)

\* event.Start and event.AllDay of an item: a value that does not parse
\* leaves the zero time
ItemStart(item, loc) ==
    IF item.Start.DateTime # <<>>
    THEN [t |-> ParseRFC3339In(item.Start.DateTime, loc).t, AllDay |-> FALSE]
    ELSE IF item.Start.Date # <<>>
         THEN [t |-> ParseDate(item.Start.Date).t, AllDay |-> TRUE]
         ELSE [t |-> ZeroTime, AllDay |-> FALSE]

\* event.End of an item
ItemEnd(item, loc) ==
    IF item.End.DateTime # <<>>
    THEN ParseRFC3339In(item.End.DateTime, loc).t
    ELSE IF item.End.Date # <<>>
         THEN ParseDate(item.End.Date).t
         ELSE ZeroTime

\* for _, item := range events.Items: the event appended for an item
ItemEvent(item, loc) ==
    [Summary |-> item.Summary,
     AllDay  |-> ItemStart(item, loc).AllDay,
     Start   |-> ItemStart(item, loc).t,
     End     |-> ItemEnd(item, loc)]

\* FetchEventsForMonth(ctx, calendarID, calendarName) at the time nw, the
\* provider answering with its or with an error
FetchEventsForMonth(nw, its, ok) ==
    /\ pc = "start"
    /\ pc' = "fetched"
    /\ now' = nw
    /\ timeMin' = FormatRFC3339([day |-> FetchStartDate(nw), tod |-> 0], zone \div 60)
    /\ timeMax' = FormatRFC3339([day |-> FetchEndDate(nw), tod |-> 0], zone \div 60)
    /\ providerItems' = IF ok THEN its ELSE <<>>
    /\ fetchResult' =
          IF ok THEN [events |-> [i \in DOMAIN its |-> ItemEvent(its[i], zone \div 60)],
                      err    |-> "nil"]
                ELSE [events |-> <<>>, err |-> "retrieve"]
    /\ UNCHANGED <<weatherData, events, maxEventsPerDay, eventsByDate, data>>
    /\ UNCHANGED textVars
    /\ UNCHANGED runVars
    /\ UNCHANGED alarmVars
    /\ UNCHANGED drawVars
    /\ UNCHANGED batteryVars
    /\ UNCHANGED sortVars

----------------------------------------------------------------------------
(* internal/battery/battery.go: GetBatteryPercentage *)

IsSpace(c) == c \in {" ", "\n", "\t"}

\* strings.TrimSpace
RECURSIVE TrimLeft(_)
TrimLeft(str) ==
    IF str # <<>> /\ IsSpace(Head(str)) THEN TrimLeft(Tail(str)) ELSE str

RECURSIVE TrimRight(_)
TrimRight(str) ==
    IF str # <<>> /\ IsSpace(str[Len(str)])
    THEN TrimRight(SubSeq(str, 1, Len(str) - 1)) ELSE str

TrimSpace(str) == TrimRight(TrimLeft(str))

\* strings.Split(str, ":"): the parts between the colons
RECURSIVE Split(_, _, _)
Split(str, i, part) ==
    IF i > Len(str) THEN <<part>>
    ELSE IF str[i] = ":" THEN <<part>> \o Split(str, i + 1, <<>>)
    ELSE Split(str, i + 1, Append(part, str[i]))

\* the position of the first character of str from i on that is no digit
RECURSIVE DigitsEnd(_, _)
DigitsEnd(str, i) ==
    IF i <= Len(str) /\ IsDigit(str[i]) THEN DigitsEnd(str, i + 1) ELSE i

\* strconv.ParseFloat(str, 64) of a decimal number: an optional sign, digits
\* with an optional point, one digit at least; the value is kept as its
\* sign, its whole part and the digits of its fraction
ParseFloat(str) ==
    LET signed == str # <<>> /\ str[1] \in {"+", "-"}
        from   == IF signed THEN 2 ELSE 1
        dot    == DigitsEnd(str, from)
        hasDot == dot <= Len(str) /\ str[dot] = "."
        last   == IF hasDot THEN DigitsEnd(str, dot + 1) ELSE dot
        digits == (dot - from) + (IF hasDot THEN last - dot - 1 ELSE 0)
    IN  IF last = Len(str) + 1 /\ digits > 0
        THEN [ok |-> TRUE,
              neg |-> signed /\ str[1] = "-",
              whole |-> Atoi(str, from, dot - 1),
              frac |-> IF hasDot THEN SubSeq(str, dot + 1, Len(str)) ELSE <<>>]
        ELSE [ok |-> FALSE, neg |-> FALSE, whole |-> 0, frac |-> <<>>]

\* fmt.Sprintf("%d%%", int(percentage)): the value cut to its whole part
FormatPercentage(f) ==
    (IF f.neg /\ f.whole # 0 THEN <<"-">> ELSE <<>>) \o Itoa(f.whole) \o <<"%">>

\* GetBatteryPercentage(ctx): execOk is whether pisugar-cli ran without
\* error, out its combined output
GetBatteryPercentage(execOk, out) ==
    /\ pc = "start"
    /\ pc' = "battery read"
    /\ batteryOutput' = out
    /\ batteryResult' =
          IF ~execOk THEN [value |-> <<>>, err |-> "exec"]
          ELSE LET parts == Split(TrimSpace(out), 1, <<>>)
               IN  IF Len(parts) # 2 THEN [value |-> <<>>, err |-> "parse output"]
                   ELSE LET percentage == ParseFloat(TrimSpace(parts[2]))
                        IN  IF ~percentage.ok
                            THEN [value |-> <<>>, err |-> "parse float"]
                            ELSE [value |-> FormatPercentage(percentage), err |-> "nil"]
    /\ UNCHANGED <<gridVars, textVars>>
    /\ UNCHANGED runVars
    /\ UNCHANGED alarmVars
    /\ UNCHANGED drawVars
    /\ UNCHANGED fetchVars
    /\ UNCHANGED sortVars

\* a call of calendar.SortEvents(evs): the copy of evs as sort.Slice leaves it
CallSortEvents(evs) ==
    /\ pc = "start"
    /\ pc' = "sorted"
    /\ events' = evs
    /\ sortedEvents' \in SortSlice(evs)
    /\ UNCHANGED <<now, weatherData, maxEventsPerDay, eventsByDate, data>>
    /\ UNCHANGED textVars
    /\ UNCHANGED runVars
    /\ UNCHANGED alarmVars
    /\ UNCHANGED drawVars
    /\ UNCHANGED fetchVars
    /\ UNCHANGED batteryVars

----------------------------------------------------------------------------
(* Inputs *)

MaxTextLen   == 3     \* runes in a text handed to truncateText
MaxHalfWidth == 14    \* largest maxWidth, in half pixels
MaxEvents    == 3     \* events in the list handed to PrepareMonthData
MaxCap       == 2     \* largest maxEventsPerDay
MaxSamples   == 2     \* hourly samples in a forecast

Glyphs == {"a", "W", ".", "é", RuneError}

\* the fonts: advances in 26.6 fixed point, two pairs may be kerned
Fonts ==
    { [adv  |-> [g \in Glyphs |->
                    CASE g = "a" -> 96
                      [] g = "W" -> wAdv
                      [] g = "." -> dotAdv
                      [] g = "é" -> 110
                      [] OTHER   -> 150],
       kern |-> [p \in Glyphs \X Glyphs |->
                    IF p = <<"W", "a">> \/ p = <<"a", ".">> THEN k ELSE 0]]
      : wAdv \in {160, 200}, dotAdv \in {40, 64}, k \in {0, -30} }

DefaultFont == CHOOSE f \in Fonts : f.adv["."] = 64 /\ f.kern[<<"W", "a">>] = 0 /\ f.adv["W"] = 160

\* UTF-8 encoding of a sequence of runes
RECURSIVE Encode(_)
Encode(runes) ==
    IF runes = <<>> THEN <<>>
    ELSE (IF Head(runes) = "é" THEN <<"C3", "A9">> ELSE <<Head(runes)>>)
         \o Encode(Tail(runes))

SeqsUpTo(S, n) == UNION { [1..k -> S] : k \in 0..n }

Texts == { Encode(r) : r \in SeqsUpTo({"a", "W", "é", "."}, MaxTextLen) }

Widths == (0 - 2)..MaxHalfWidth

At(day, hour, minute) == [day |-> day, tod |-> hour * 60 + minute]

\* clock readings with every month of the years BaseYear.. as current month
GridNows ==
    { At(DaysFromCivil(y, m, d), 10, 0) :
        y \in BaseYear..(BaseYear + YearSpan - 1), m \in 1..12, d \in {1, 28} }

Mar(d) == DaysFromCivil(2024, 3, d)

MonthNow == At(Mar(8), 10, 0)

\* events as FetchEventsForMonth builds them; the summary is set from the
\* position in the list
EventPool ==
    { [AllDay |-> TRUE,  Start |-> At(Mar(10), 0, 0),  End |-> At(Mar(13), 0, 0)],
      [AllDay |-> TRUE,  Start |-> At(Mar(12), 0, 0),  End |-> At(Mar(12), 0, 0)],
      [AllDay |-> TRUE,  Start |-> At(Mar(1) - 2, 0, 0), End |-> At(Mar(2), 0, 0)],
      [AllDay |-> FALSE, Start |-> At(Mar(12), 9, 0),  End |-> At(Mar(12), 10, 0)],
      [AllDay |-> FALSE, Start |-> At(Mar(12), 9, 0),  End |-> At(Mar(12), 9, 0)],
      [AllDay |-> FALSE, Start |-> At(Mar(11), 23, 0), End |-> At(Mar(12), 1, 0)],
      [AllDay |-> FALSE, Start |-> At(Mar(13), 10, 0), End |-> At(Mar(12), 10, 0)] }

Summary(i) == <<"e", DigitChars[i + 1]>>

EventLists ==
    { [i \in DOMAIN l |-> [Summary |-> Summary(i), AllDay |-> l[i].AllDay,
                            Start |-> l[i].Start, End |-> l[i].End]]
      : l \in SeqsUpTo(EventPool, MaxEvents) }

\* hourly samples around the forecast window of MonthNow
SamplePool ==
    { [Time |-> At(Mar(8) + off, h, 0), Temperature |-> t] :
        off \in {0, 7}, h \in {3, 13}, t \in {0, 20} }
    \cup { [Time |-> At(Mar(8) + off, h, 0), Temperature |-> 7] :
        off \in {0 - 1, 8}, h \in {3, 13} }
    \cup { [Time |-> At(Mar(8), 20, 0), Temperature |-> 5],
           [Time |-> At(Mar(8), 13, 0), Temperature |-> 0 - 3] }

MaxSources == 2      \* configured calendars

\* the configured calendars: the first one has no name
CalendarConfigs(n) ==
    [i \in 1..n |-> [ID   |-> <<"c", DigitChars[i + 1]>>,
                     Name |-> IF i = 1 THEN <<>> ELSE <<"n", DigitChars[i + 1]>>]]

\* what a fetch of one calendar gives: an error, or its items
FetchOutcomes ==
    { [ok |-> FALSE, items |-> <<>>],
      [ok |-> TRUE,
       items |-> <<[Summary |-> Summary(1), AllDay |-> TRUE,
                    Start |-> At(Mar(10), 0, 0), End |-> At(Mar(13), 0, 0)]>>],
      [ok |-> TRUE,
       items |-> <<[Summary |-> Summary(2), AllDay |-> FALSE,
                    Start |-> At(Mar(8), 9, 0), End |-> At(Mar(8), 10, 0)],
                   [Summary |-> Summary(3), AllDay |-> TRUE,
                    Start |-> At(Mar(8), 0, 0), End |-> At(Mar(9), 0, 0)]>>] }

\* what weather.Fetch gives when it succeeds
RunForecasts ==
    { [IsNil |-> FALSE, Hourly |-> <<>>],
      [IsNil |-> FALSE,
       Hourly |-> <<[Time |-> At(Mar(8), 3, 0), Temperature |-> 7],
                    [Time |-> At(Mar(8), 13, 0), Temperature |-> 20],
                    [Time |-> At(Mar(9), 13, 0), Temperature |-> 18]>>] }

Forecasts ==
    {NilForecast} \cup { [IsNil |-> FALSE, Hourly |-> h] : h \in SeqsUpTo(SamplePool, MaxSamples) }

----------------------------------------------------------------------------
(* Specifications *)

InitIdle ==
    /\ now = At(0, 0, 0)
    /\ weatherData = NilForecast
    /\ events = <<>>
    /\ maxEventsPerDay = 0
    /\ eventsByDate = EmptyMap
    /\ data = <<>>
    /\ text = <<>>
    /\ maxWidth = 0
    /\ truncated = <<>>
    /\ retruncated = <<>>
    /\ fetched = <<>>
    /\ allEvents = <<>>
    /\ output = NoFile
    /\ cmds = <<>>
    /\ log = {}
    /\ result = "running"
    /\ alarmTime = <<>>
    /\ tmpl = [Width |-> 0, Height |-> 0, Weeks |-> <<>>]
    /\ canvas = <<>>
    /\ renderErr = "nil"
    /\ providerItems = <<>>
    /\ timeMin = <<>>
    /\ timeMax = <<>>
    /\ fetchResult = [events |-> <<>>, err |-> "nil"]
    /\ batteryOutput = <<>>
    /\ batteryResult = [value |-> <<>>, err |-> "nil"]
    /\ sortedEvents = <<>>

\* the clock of the alarm at the epoch, in UTC
InitClock == InitIdle /\ clock = 0 /\ zone = 0

NoFlags == [dumpHTML |-> FALSE, noShutdown |-> FALSE, listCalendars |-> FALSE]

\* the grid of every month: no events, no forecast
InitGrid == InitClock /\ pc = "start" /\ font = DefaultFont /\ flags = NoFlags /\ calendars = <<>>
NextGrid ==
    pc = "start" /\ \E nw \in GridNows : PrepareMonthData(nw, NilForecast, <<>>, MaxCap)
SpecGrid == InitGrid /\ [][NextGrid]_vars

\* event lists in one month
InitEvents == InitClock /\ pc = "start" /\ font = DefaultFont /\ flags = NoFlags /\ calendars = <<>>
NextEvents ==
    pc = "start" /\ \E evs \in EventLists, cap \in 1..MaxCap :
                        PrepareMonthData(MonthNow, NilForecast, evs, cap)
SpecEvents == InitEvents /\ [][NextEvents]_vars

\* forecasts in one month
InitWeather == InitClock /\ pc = "start" /\ font = DefaultFont /\ flags = NoFlags /\ calendars = <<>>
NextWeather ==
    pc = "start" /\ \E w \in Forecasts : PrepareMonthData(MonthNow, w, <<>>, MaxCap)
SpecWeather == InitWeather /\ [][NextWeather]_vars

\* app.Run with every command line, every outcome of each step
InitRun ==
    /\ InitClock
    /\ font = DefaultFont
    /\ pc = "Run"
    /\ flags \in { [dumpHTML |-> d, noShutdown |-> n, listCalendars |-> FALSE] :
                     d \in BOOLEAN, n \in BOOLEAN }
    /\ calendars \in { CalendarConfigs(n) : n \in 0..MaxSources }
NextRun ==
    \/ \E ok \in BOOLEAN : Run_NewClient(ok)
    \/ \E ok \in BOOLEAN, w \in RunForecasts : Run_fetchWeather(ok, w)
    \/ \E outcomes \in [DOMAIN calendars -> FetchOutcomes] :
          Run_fetchAllCalendarEvents(outcomes)
    \/ Run_generateHTML(MonthNow, MaxCap)
    \/ \E ok \in BOOLEAN : Run_generatePNG(ok)
    \/ \E ok \in BOOLEAN : Run_handlePiSugar(ok)
    \/ \E ok \in BOOLEAN : Run_shutdown(ok)
SpecRun == InitRun /\ [][NextRun]_vars

\* main with every command line, every outcome of each step
InitMain ==
    /\ InitClock
    /\ font = DefaultFont
    /\ pc = "main"
    /\ flags \in [dumpHTML : BOOLEAN, noShutdown : BOOLEAN, listCalendars : BOOLEAN]
    /\ calendars \in { CalendarConfigs(n) : n \in 0..MaxSources }
NextMain ==
    \/ \E ok \in BOOLEAN : main_Load(ok)
    \/ \E ok \in BOOLEAN : main_NewClient(ok)
    \/ \E ok \in BOOLEAN : main_ListCalendars(ok)
    \/ \E ok \in BOOLEAN, w \in RunForecasts : main_Fetch(ok, w)
    \/ \E outcomes \in [DOMAIN calendars -> FetchOutcomes] : main_FetchEvents(outcomes)
    \/ main_RenderHTML(MonthNow, MaxCap)
    \/ \E ok \in BOOLEAN : main_HTMLToPNG(ok)
    \/ \E ok \in BOOLEAN : main_setPiSugarAlarm(ok)
    \/ \E ok \in BOOLEAN : main_shutdown(ok)
SpecMain == InitMain /\ [][NextMain]_vars

MaxOutputLen == 3      \* characters in the output of pisugar-cli

\* outputs of pisugar-cli --get-battery-level
BatteryOutputs ==
    SeqsUpTo({"b", ":", " ", "8", "5", ".", "\n"}, MaxOutputLen)
    \cup { <<"b", ":", " ", "8", "5", ".", "5", "\n">>,
           <<"b", ":", " ", "1", "0", "0">>,
           <<"b", ":", "-", "0", ".", "5">> }

\* GetBatteryPercentage over every output, pisugar-cli running or not
InitBattery ==
    /\ InitClock /\ pc = "start" /\ font = DefaultFont
    /\ flags = NoFlags /\ calendars = <<>>
NextBattery ==
    \E execOk \in BOOLEAN, out \in BatteryOutputs : GetBatteryPercentage(execOk, out)
SpecBattery == InitBattery /\ [][NextBattery]_vars

MaxBucketExtra == 1    \* events of a bucket beyond maxInsertion

\* timed events of 12 March, one an hour down to 10:00, the latest first
Fillers(n) ==
    [i \in 1..n |-> [AllDay |-> FALSE, Start |-> At(Mar(12), 10 + n - i, 0),
                     End |-> At(Mar(12), 11 + n - i, 0)]]

\* buckets longer than maxInsertion: two events of the pool, then the fillers
LongBuckets ==
    { l \o Fillers(maxInsertion - 2 + k) :
        l \in [1..2 -> EventPool], k \in 1..MaxBucketExtra }

BucketSummary(i) == <<"e">> \o Itoa(i)

Buckets ==
    { [i \in DOMAIN l |-> [Summary |-> BucketSummary(i), AllDay |-> l[i].AllDay,
                            Start |-> l[i].Start, End |-> l[i].End]]
      : l \in SeqsUpTo(EventPool, MaxEvents) \cup LongBuckets }

\* SortEvents over short and long buckets
InitSort ==
    /\ InitClock /\ pc = "start" /\ font = DefaultFont
    /\ flags = NoFlags /\ calendars = <<>>
NextSort ==
    \E evs \in Buckets : CallSortEvents(evs)
SpecSort == InitSort /\ [][NextSort]_vars

MaxItems == 2          \* items in an answer of the provider

DateString(day) == SubSeq(FormatRFC3339([day |-> day, tod |-> 0], 0), 1, 10)

NoValue == [DateTime |-> <<>>, Date |-> <<>>]

TimedValue(t, off) == [DateTime |-> FormatRFC3339(t, off), Date |-> <<>>]

DateValue(str) == [DateTime |-> <<>>, Date |-> str]

\* a date-time with a space where the layout has T
SpaceForT(str) == [str EXCEPT ![11] = " "]

\* a date-time with hour 24
Hour24(str) == [str EXCEPT ![12] = "2", ![13] = "4"]

\* 30 February 2024
Feb30 == <<"2", "0", "2", "4", "-", "0", "2", "-", "3", "0">>

\* the items of the provider, without their summary: timed and all-day
\* ones that parse, and ones whose start or end does not
ItemPool ==
    { [Start |-> TimedValue(At(Mar(12), 9, 0), 60),
       End   |-> TimedValue(At(Mar(12), 10, 0), 60)],
      [Start |-> TimedValue(At(Mar(12), 23, 30), 0),
       End   |-> TimedValue(At(Mar(13), 0, 30), 0)],
      [Start |-> DateValue(DateString(Mar(12))),
       End   |-> DateValue(DateString(Mar(13)))],
      [Start |-> [DateTime |-> SpaceForT(FormatRFC3339(At(Mar(12), 9, 0), 60)), Date |-> <<>>],
       End   |-> TimedValue(At(Mar(12), 10, 0), 60)],
      [Start |-> TimedValue(At(Mar(12), 9, 0), 60),
       End   |-> [DateTime |-> Hour24(FormatRFC3339(At(Mar(12), 10, 0), 60)), Date |-> <<>>]],
      [Start |-> DateValue(DateString(Mar(12))),
       End   |-> DateValue(Feb30)] }

ItemLists ==
    { [i \in DOMAIN l |-> [Summary |-> Summary(i), Start |-> l[i].Start, End |-> l[i].End]]
      : l \in SeqsUpTo(ItemPool, MaxItems) }

\* UTC and UTC+1
FetchZones == {0, Hour}

\* a fetch in every month with no item, a fetch in March 2024 with every
\* list of items, then the grid of the same instant built from the events
\* returned; a list with an event starting at the zero time is not handed
\* on, its bucket loop runs over 700000 dates
InitFetch ==
    /\ InitIdle /\ pc = "start" /\ font = DefaultFont
    /\ flags = NoFlags /\ calendars = <<>>
    /\ clock = 0
    /\ zone \in FetchZones
NextFetch ==
    \/ /\ pc = "start"
       /\ \/ \E nw \in GridNows, ok \in BOOLEAN : FetchEventsForMonth(nw, <<>>, ok)
          \/ \E its \in ItemLists : FetchEventsForMonth(MonthNow, its, TRUE)
    \/ /\ pc = "fetched"
       /\ fetchResult.err = "nil"
       /\ \A i \in DOMAIN fetchResult.events : fetchResult.events[i].Start # ZeroTime
       /\ PrepareMonthData(now, NilForecast, fetchResult.events, MaxCap)
SpecFetch == InitFetch /\ [][NextFetch]_vars

MaxRenderEvents == 3   \* events of a list given to the renderer
MaxRowExtra == 50      \* row heights from 60 to 60 + MaxRowExtra pixels

\* a font with every glyph 7 pixels wide
RenderGlyphs == {"e", ":", "."} \cup { DigitChars[i] : i \in 1..10 }
RenderFont == [adv  |-> [g \in RenderGlyphs |-> 7 * 64],
               kern |-> [p \in RenderGlyphs \X RenderGlyphs |-> 0]]

\* the events of 12 March: two all-day, one timed, and one of three days
RenderPool ==
    { [AllDay |-> TRUE,  Start |-> At(Mar(12), 0, 0),  End |-> At(Mar(12), 0, 0)],
      [AllDay |-> FALSE, Start |-> At(Mar(12), 9, 0),  End |-> At(Mar(12), 10, 0)],
      [AllDay |-> TRUE,  Start |-> At(Mar(10), 0, 0),  End |-> At(Mar(13), 0, 0)] }

RenderEventLists ==
    { [i \in DOMAIN l |-> [Summary |-> Summary(i), AllDay |-> l[i].AllDay,
                            Start |-> l[i].Start, End |-> l[i].End]]
      : l \in SeqsUpTo(RenderPool, MaxRenderEvents) }

\* the grids of March 2024 that PrepareMonthData builds, five weeks each
RenderGrids ==
    { BuildWeeks(BuildEventsByDate(evs, 1, EmptyMap), NilForecast, MaxRenderEvents,
                 GridStartDate(MonthNow), GridEndDate(MonthNow), MonthNow, <<>>)
      : evs \in RenderEventLists }

\* a grid with the last cell of its second week missing
DropCell(weeks) ==
    [weeks EXCEPT ![2] = [Days |-> SubSeq(weeks[2].Days, 1, 6)]]

\* a grid with an eighth cell in its first week
ExtraCell(weeks) ==
    [weeks EXCEPT ![1] = [Days |-> weeks[1].Days \o <<weeks[2].Days[1]>>]]

\* grids a caller can hand over: well formed or not, and no week at all
AnyGrids ==
    RenderGrids \cup { DropCell(g) : g \in RenderGrids }
                \cup { ExtraCell(g) : g \in RenderGrids } \cup { <<>> }

\* canvas widths: multiples of 7, one negative
CanvasWidths == { 0 - 700, 280, 700 }

\* canvas heights: weekdayY + 5 * rowHeight, one negative
CanvasHeights ==
    { weekdayY + 5 * rh : rh \in {60, 61, 62, 63, 85, 86, 87, 60 + MaxRowExtra} }
    \cup { 0 - 480 }

\* RenderCalendarToPNG over every grid and canvas size
InitRender ==
    /\ InitClock /\ pc = "start" /\ font = RenderFont
    /\ flags = NoFlags /\ calendars = <<>>
NextRender ==
    \E g \in AnyGrids, w \in CanvasWidths, h \in CanvasHeights, saveOk \in BOOLEAN :
        RenderCalendarToPNG([Width |-> w, Height |-> h, Weeks |-> g], saveOk)
SpecRender == InitRender /\ [][NextRender]_vars

MaxClockSteps == 40    \* instants taken as time.Now() for the alarm

\* 2024-03-08 09:00:00 UTC
ClockBase == Mar(8) * SecondsPerDay + 9 * Hour

\* instants from ClockBase on, 449 seconds apart, and the last second of
\* the day
Clocks == { ClockBase + 449 * k : k \in 0..MaxClockSteps }
          \cup { Mar(8) * SecondsPerDay + SecondsPerDay - 1 }

\* UTC-5, UTC-3:30, UTC, UTC+1, UTC+5:30, UTC+5:45, UTC+9:30
Zones == { -5 * Hour, -(3 * Hour + 1800), 0, Hour, 5 * Hour + 1800,
           5 * Hour + 2700, 9 * Hour + 1800 }

\* the alarm at every instant in every zone
InitAlarm ==
    /\ InitIdle /\ pc = "start" /\ font = DefaultFont
    /\ flags = NoFlags /\ calendars = <<>>
    /\ clock \in Clocks
    /\ zone \in Zones
NextAlarm == \E ok \in BOOLEAN : setPiSugarAlarm(ok)
SpecAlarm == InitAlarm /\ [][NextAlarm]_vars

\* truncateText over every font, text and width
InitText == InitClock /\ pc = "start" /\ font \in Fonts /\ flags = NoFlags /\ calendars = <<>>
NextText ==
    \/ pc = "start" /\ \E t \in Texts, w \in Widths : TruncateText(t, w)
    \/ TruncateAgain
SpecText == InitText /\ [][NextText]_vars

----------------------------------------------------------------------------
(* Properties.  Dates of the grid are read back from the cells' Date keys   *)
(* with calendar rules stated independently of the grid construction.       *)

RECURSIVE Flatten(_, _)
Flatten(weeks, i) ==
    IF i > Len(weeks) THEN <<>> ELSE weeks[i].Days \o Flatten(weeks, i + 1)

Cells == Flatten(data, 1)

\* day of the week of a date key, 0 = Sunday (Sakamoto's rule)
KeyWeekday(k) ==
    LET t == <<0, 3, 2, 5, 0, 3, 5, 1, 4, 6, 2, 4>>
        y == IF k[2] < 3 THEN k[1] - 1 ELSE k[1]
    IN  (y + y \div 4 - y \div 100 + y \div 400 + t[k[2]] + k[3]) % 7

\* ordinal of a date key: days before it in its year plus 366 per year
RECURSIVE DaysBeforeMonth(_, _)
DaysBeforeMonth(y, m) == IF m = 1 THEN 0 ELSE DaysIn(y, m - 1) + DaysBeforeMonth(y, m - 1)

RECURSIVE DaysBeforeYear(_)
DaysBeforeYear(y) ==
    IF y <= 1970 THEN 0 ELSE (IF IsLeap(y - 1) THEN 366 ELSE 365) + DaysBeforeYear(y - 1)

KeyDay(k) == DaysBeforeYear(k[1]) + DaysBeforeMonth(k[1], k[2]) + k[3] - 1

\* C1: for every year and month taken as the current month, the grid's first
\* cell is a Monday, its last cell a Sunday, the number of cells is a multiple
\* of 7 and every day of the month has a cell.
C1_GridAligned ==
    pc = "prepared" =>
        LET cells == Cells
            nowKey == CivilFromDays(now.day)
        IN  /\ Len(cells) > 0
            /\ KeyWeekday(cells[1].Date) = 1
            /\ KeyWeekday(cells[Len(cells)].Date) = 0
            /\ Len(cells) % 7 = 0
            /\ \A d \in 1..DaysIn(nowKey[1], nowKey[2]) :
                 \E i \in DOMAIN cells : cells[i].Date = <<nowKey[1], nowKey[2], d>>

\* March 2024: 35 cells from Feb 26 to Mar 31
C1_Witness ==
    /\ pc = "prepared"
    /\ Year(now.day) = 2024 /\ Month(now.day) = 3
    /\ Len(Cells) = 35
    /\ Cells[1].Date = <<2024, 2, 26>>
    /\ Cells[35].Date = <<2024, 3, 31>>

\* the date keys whose bucket holds the i-th input event
KeysOf(i) ==
    { k \in DOMAIN eventsByDate :
        \E j \in DOMAIN eventsByDate[k] : eventsByDate[k][j] = events[i] }

\* C2: an all-day event whose end date E is after its start date S is in the
\* buckets of exactly the dates S .. E-1, and never in the bucket of E.
C2_AllDayExclusiveEnd ==
    pc = "prepared" =>
        \A i \in DOMAIN events :
            (events[i].AllDay /\ events[i].End.day > events[i].Start.day) =>
                /\ { KeyDay(k) : k \in KeysOf(i) }
                     = events[i].Start.day .. (events[i].End.day - 1)
                /\ \A k \in KeysOf(i) : KeyDay(k) # events[i].End.day

\* the all-day event of 2024-03-10 with provider end 2024-03-13 is under
\* Mar 10, 11 and 12
C2_Witness ==
    /\ pc = "prepared"
    /\ \E i \in DOMAIN events :
        /\ events[i].AllDay
        /\ CivilFromDays(events[i].Start.day) = <<2024, 3, 10>>
        /\ CivilFromDays(events[i].End.day) = <<2024, 3, 13>>
        /\ KeysOf(i) = {<<2024, 3, 10>>, <<2024, 3, 11>>, <<2024, 3, 12>>}

\* the input event a template event was made from (summaries are unique)
Origin(ed) == CHOOSE i \in DOMAIN events : events[i].Summary = ed.Summary

\* C3: every cell holds at most maxEventsPerDay events, all-day events before
\* timed ones, and start times non-decreasing within each class.
C3_CellsSortedAndCapped ==
    pc = "prepared" =>
        \A c \in DOMAIN Cells :
            LET evs == Cells[c].Events
            IN  /\ Len(evs) <= maxEventsPerDay
                /\ \A i, j \in DOMAIN evs :
                     i < j =>
                        /\ ~(~evs[i].AllDay /\ evs[j].AllDay)
                        /\ evs[i].AllDay = evs[j].AllDay =>
                             ~Before(events[Origin(evs[j])].Start,
                                     events[Origin(evs[i])].Start)

\* a bucket larger than the cap, whose cell puts an all-day event given
\* later in the input before a timed one
C3_Witness ==
    /\ pc = "prepared"
    /\ \E c \in DOMAIN Cells :
        LET evs == Cells[c].Events
        IN  /\ Len(MapGet(eventsByDate, Cells[c].Date)) > maxEventsPerDay
            /\ Len(evs) = maxEventsPerDay
            /\ Len(evs) >= 2
            /\ evs[1].AllDay /\ ~evs[2].AllDay
            /\ Origin(evs[1]) > Origin(evs[2])

\* number of samples of the forecast on the date of key k with lo <= hour < hi
BandCount(k, lo, hi) ==
    Cardinality({ i \in DOMAIN weatherData.Hourly :
                    /\ CivilFromDays(weatherData.Hourly[i].Time.day) = k
                    /\ weatherData.Hourly[i].Time.tod \div 60 \in lo..(hi - 1) })

InWindow(k) == KeyDay(k) >= now.day /\ KeyDay(k) < now.day + 8

NoTemps(cell) == cell.DayTemp = <<>> /\ cell.NightTemp = <<>>

\* C4: a cell dated before today or on or after today+8 has two empty
\* temperature strings, whatever the forecast holds for its date.
C4_NoTempsOutsideWindow ==
    pc = "prepared" =>
        \A c \in DOMAIN Cells : ~InWindow(Cells[c].Date) => NoTemps(Cells[c])

\* a cell outside the window whose date has a sample in each band
C4_Witness ==
    /\ pc = "prepared"
    /\ \E c \in DOMAIN Cells :
        /\ ~InWindow(Cells[c].Date)
        /\ BandCount(Cells[c].Date, 12, 18) > 0
        /\ BandCount(Cells[c].Date, 0, 6) > 0
        /\ NoTemps(Cells[c])

\* C5: a cell in the window whose date has a sample in each band has two
\* non-empty temperature strings, whatever the temperatures are.
C5_TempsWhenBothBands ==
    pc = "prepared" =>
        \A c \in DOMAIN Cells :
            ( /\ InWindow(Cells[c].Date)
              /\ BandCount(Cells[c].Date, 12, 18) > 0
              /\ BandCount(Cells[c].Date, 0, 6) > 0 )
            => (Cells[c].DayTemp # <<>> /\ Cells[c].NightTemp # <<>>)

\* C6: a cell in the window with no sample in one of the bands has two empty
\* temperature strings.
C6_NoTempsWhenBandEmpty ==
    pc = "prepared" =>
        \A c \in DOMAIN Cells :
            ( /\ InWindow(Cells[c].Date)
              /\ ~weatherData.IsNil
              /\ \/ BandCount(Cells[c].Date, 12, 18) = 0
                 \/ BandCount(Cells[c].Date, 0, 6) = 0 )
            => NoTemps(Cells[c])

\* C7: a cell in the window whose date has no sample in either band has two
\* empty temperature strings, not "0°" twice.
C7_NoTempsWhenNoSamples ==
    pc = "prepared" =>
        \A c \in DOMAIN Cells :
            ( /\ InWindow(Cells[c].Date)
              /\ ~weatherData.IsNil
              /\ BandCount(Cells[c].Date, 12, 18) = 0
              /\ BandCount(Cells[c].Date, 0, 6) = 0 )
            => /\ NoTemps(Cells[c])
               /\ Cells[c].DayTemp # <<"0", "°">>
               /\ Cells[c].NightTemp # <<"0", "°">>

\* a forecast with samples, and a cell in the window without any in its bands
C7_Witness ==
    /\ pc = "prepared"
    /\ ~weatherData.IsNil
    /\ Len(weatherData.Hourly) > 0
    /\ \E c \in DOMAIN Cells :
        /\ InWindow(Cells[c].Date)
        /\ BandCount(Cells[c].Date, 12, 18) = 0
        /\ BandCount(Cells[c].Date, 0, 6) = 0
        /\ NoTemps(Cells[c])

Returned == pc \in {"truncated", "retruncated"}

EllipsisWidth == Px(MeasureString(font, Ellipsis))

EndsWithEllipsis(s) ==
    Len(s) >= Len(Ellipsis) /\ SubSeq(s, Len(s) - Len(Ellipsis) + 1, Len(s)) = Ellipsis

\* C8: for a width of at least the ellipsis width, the measured width of the
\* returned string is at most the width.
C8_FitsWhenEllipsisFits ==
    (Returned /\ maxWidth >= EllipsisWidth) =>
        Px(MeasureString(font, truncated)) <= maxWidth

\* a text too wide, cut to a non-empty prefix and the ellipsis
C8_Witness ==
    /\ Returned
    /\ maxWidth >= EllipsisWidth
    /\ Px(MeasureString(font, text)) > maxWidth
    /\ Len(truncated) > Len(Ellipsis)
    /\ truncated # text

\* C9: truncating the returned string again with the same width returns it
\* unchanged.
C9_Idempotent == pc = "retruncated" => retruncated = truncated

\* the second call on a string the first call shortened
C9_Witness ==
    /\ pc = "retruncated"
    /\ truncated # text
    /\ Len(truncated) > Len(Ellipsis)
    /\ retruncated = truncated

\* C10 as stated: for every width the returned string is at most as wide as
\* the width, and a returned string that differs from the text ends with the
\* ellipsis.
C10_Original ==
    Returned =>
        /\ Px(MeasureString(font, truncated)) <= maxWidth
        /\ truncated # text => EndsWithEllipsis(truncated)

\* C10 amended: the returned string is at most as wide as the larger of the
\* width and the ellipsis width, and a returned string that differs from the
\* text ends with the ellipsis.
C10_Amended ==
    Returned =>
        /\ Px(MeasureString(font, truncated))
             <= (IF maxWidth >= EllipsisWidth THEN maxWidth ELSE EllipsisWidth)
        /\ truncated # text => EndsWithEllipsis(truncated)

\* a width below the ellipsis width and a text that does not fit
C10_Witness ==
    /\ Returned
    /\ maxWidth < EllipsisWidth
    /\ truncated # text
    /\ truncated = Ellipsis
    /\ Px(MeasureString(font, truncated)) > maxWidth

\* the sort order of the spec: all-day before timed, then ascending start
SortsBefore(a, b) ==
    \/ a.AllDay /\ ~b.AllDay
    \/ a.AllDay = b.AllDay /\ Before(a.Start, b.Start)

\* the input events of a cell, and of the bucket of its date
KeptOf(cell) == { Origin(cell.Events[j]) : j \in DOMAIN cell.Events }

BucketOf(cell) ==
    { i \in DOMAIN events :
        \E j \in DOMAIN MapGet(eventsByDate, cell.Date) :
            MapGet(eventsByDate, cell.Date)[j] = events[i] }

\* C11: a cell of a bucket of n events holds min(n, maxEventsPerDay) events,
\* each of them from the bucket, and no dropped event sorts before a kept one.
C11_CapKeepsFirst ==
    pc = "prepared" =>
        \A c \in DOMAIN Cells :
            LET n == Len(MapGet(eventsByDate, Cells[c].Date))
            IN  /\ Len(Cells[c].Events)
                     = (IF n > maxEventsPerDay THEN maxEventsPerDay ELSE n)
                /\ Cardinality(KeptOf(Cells[c])) = Len(Cells[c].Events)
                /\ KeptOf(Cells[c]) \subseteq BucketOf(Cells[c])
                /\ \A k \in KeptOf(Cells[c]) :
                     \A d \in BucketOf(Cells[c]) \ KeptOf(Cells[c]) :
                        ~SortsBefore(events[d], events[k])

\* a bucket of more events than the cap, the dropped one sorting after every
\* kept one although it came first in the input
C11_Witness ==
    /\ pc = "prepared"
    /\ \E c \in DOMAIN Cells :
        /\ Len(MapGet(eventsByDate, Cells[c].Date)) > maxEventsPerDay
        /\ Len(Cells[c].Events) = maxEventsPerDay
        /\ \E d \in BucketOf(Cells[c]) \ KeptOf(Cells[c]) :
             \A k \in KeptOf(Cells[c]) : SortsBefore(events[k], events[d]) /\ d < k

\* the first day of the current month, and the position of its cell
FirstOfMonthKey == <<CivilFromDays(now.day)[1], CivilFromDays(now.day)[2], 1>>

FirstOfMonthCell == CHOOSE i \in DOMAIN Cells : Cells[i].Date = FirstOfMonthKey

KeyIsoWeekday(k) == IF KeyWeekday(k) = 0 THEN 7 ELSE KeyWeekday(k)

\* C12: the cells before the cell of the 1st of the current month are as many
\* as the ISO weekday of the 1st minus one, and all of another month.
C12_LeadingPadding ==
    pc = "prepared" =>
        /\ \E i \in DOMAIN Cells : Cells[i].Date = FirstOfMonthKey
        /\ FirstOfMonthCell - 1 = KeyIsoWeekday(FirstOfMonthKey) - 1
        /\ \A i \in 1..(FirstOfMonthCell - 1) : ~Cells[i].IsCurrentMonth
        /\ Cells[FirstOfMonthCell].IsCurrentMonth

\* a month whose 1st is a Sunday: six padding cells, the 1st in the 7th cell
C12_Witness ==
    /\ pc = "prepared"
    /\ KeyWeekday(FirstOfMonthKey) = 0
    /\ Cells[7].Date = FirstOfMonthKey
    /\ \A i \in 1..6 : ~Cells[i].IsCurrentMonth

\* C13: a timed event is in the buckets of exactly the dates from the date of
\* its start to the date of its end; one date when start and end are equal.
C13_TimedInclusive ==
    pc = "prepared" =>
        \A i \in DOMAIN events :
            ~events[i].AllDay =>
                /\ { KeyDay(k) : k \in KeysOf(i) }
                     = events[i].Start.day .. events[i].End.day
                /\ events[i].Start = events[i].End => Cardinality(KeysOf(i)) = 1

\* a timed event from 23:00 to 01:00 under both dates, and a timed event of
\* one instant under one date
C13_Witness ==
    /\ pc = "prepared"
    /\ \E i, j \in DOMAIN events :
        /\ ~events[i].AllDay /\ ~events[j].AllDay
        /\ events[i].End.day = events[i].Start.day + 1
        /\ KeysOf(i) = {<<2024, 3, 11>>, <<2024, 3, 12>>}
        /\ events[j].Start = events[j].End
        /\ KeysOf(j) = {<<2024, 3, 12>>}

\* C14: in every cell the two temperature strings are both empty or both
\* non-empty.
C14_TempsTogether ==
    pc = "prepared" =>
        \A c \in DOMAIN Cells :
            (Cells[c].DayTemp = <<>>) <=> (Cells[c].NightTemp = <<>>)

\* a cell with two temperature strings although only one band has samples
C14_Witness ==
    /\ pc = "prepared"
    /\ \E c \in DOMAIN Cells :
        /\ Cells[c].DayTemp # <<>> /\ Cells[c].NightTemp # <<>>
        /\ BandCount(Cells[c].Date, 12, 18) = 0
        /\ BandCount(Cells[c].Date, 0, 6) > 0

\* C15: every week has 7 cells and every cell is dated one day after the
\* cell before it in row-major order.
C15_SevenConsecutive ==
    pc = "prepared" =>
        /\ \A w \in DOMAIN data : Len(data[w].Days) = 7
        /\ \A i \in 1..(Len(Cells) - 1) :
             KeyDay(Cells[i + 1].Date) = KeyDay(Cells[i].Date) + 1

\* the grid of February 2024: the leap day followed by March 1
C15_Witness ==
    /\ pc = "prepared"
    /\ Len(data) = 5
    /\ \E i \in 1..(Len(Cells) - 1) :
        /\ Cells[i].Date = <<2024, 2, 29>>
        /\ Cells[i + 1].Date = <<2024, 3, 1>>

\* C16: every event of the input list is in the bucket of at least one date.
C16_NoEventDropped ==
    pc = "prepared" => \A i \in DOMAIN events : KeysOf(i) # {}

----------------------------------------------------------------------------
(* app.Run *)

\* fetchAllCalendarEvents has returned in this run
Fetched ==
    \/ pc \in {"html", "png", "pisugar", "shutdown"}
    \/ pc = "returned" /\ result # "client"

\* the events of the calendars 1..n whose fetch succeeded, in that order
RECURSIVE MergedUpTo(_)
MergedUpTo(n) ==
    IF n = 0 THEN <<>>
    ELSE MergedUpTo(n - 1) \o
         (IF fetched[n].ok THEN SourceEvents(calendars[n], fetched[n].items)
                           ELSE <<>>)

\* C17: whatever calendars fail, fetchAllCalendarEvents returns no error and
\* returns the events of the calendars that succeeded, concatenated in the
\* order of the configuration.
C17_FetchMergesSucceeded ==
    Fetched =>
        /\ result # "fetch"
        /\ "fetch" \notin log
        /\ allEvents = MergedUpTo(Len(calendars))

\* the first calendar failed and the events of the second one were returned
C17_Witness ==
    /\ Fetched
    /\ Len(calendars) = 2
    /\ ~fetched[1].ok
    /\ fetched[2].ok
    /\ allEvents # <<>>
    /\ \A i \in DOMAIN allEvents : allEvents[i].CalendarName = SourceName(calendars[2])

\* the cell without its two temperature strings
Blank(cell) == [cell EXCEPT !.DayTemp = <<>>, !.NightTemp = <<>>]

BlankWeek(week) == [Days |-> [i \in DOMAIN week.Days |-> Blank(week.Days[i])]]

\* C18: a failed weather fetch leaves a nil forecast and does not end the
\* run; the grid built from a nil forecast has no temperature string, and
\* the grid built from any forecast differs from it in the temperature
\* strings only.
C18_WeatherNotFatal ==
    /\ "weather" \in log => weatherData = NilForecast /\ result # "weather"
    /\ pc = "png" =>
        /\ [i \in DOMAIN data |-> BlankWeek(data[i])]
             = BuildWeeks(eventsByDate, NilForecast, maxEventsPerDay,
                          GridStartDate(now), GridEndDate(now), now, <<>>)
        /\ weatherData.IsNil => \A c \in DOMAIN Cells : NoTemps(Cells[c])

\* the weather fetch failed, events were fetched and the PNG was written
C18_Witness ==
    /\ "weather" \in log
    /\ allEvents # <<>>
    /\ output.kind = "calendar"
    /\ \A c \in DOMAIN Cells : NoTemps(Cells[c])

\* the alarm was set without error before command i
AlarmSetBefore(i) ==
    \E j \in 1..(i - 1) : cmds[j] = [cmd |-> "set-alarm", ok |-> TRUE]

\* the shutdown command is issued only after the PNG, with neither flag set
\* and after the alarm was set
ShutdownOnlyAfterAlarm ==
    \A i \in DOMAIN cmds :
        cmds[i].cmd = "shutdown" =>
            /\ output.kind = "calendar"
            /\ ~flags.noShutdown
            /\ ~flags.dumpHTML
            /\ AlarmSetBefore(i)

\* C20 as stated: the shutdown is issued only after the PNG was generated,
\* with noShutdown and dumpHTML false and the alarm set; with noShutdown true
\* no command is executed and a run that ends without error has generated
\* the PNG.
C20_Original ==
    /\ ShutdownOnlyAfterAlarm
    /\ flags.noShutdown => cmds = <<>>
    /\ flags.noShutdown /\ pc = "returned" /\ result = "nil" =>
           output.kind = "calendar"

\* C20: the shutdown is issued only after the PNG was generated, with
\* noShutdown and dumpHTML false and the alarm set; with noShutdown true no
\* command is executed, and a run that ends without error has generated the
\* PNG unless dumpHTML is true.
C20_Amended ==
    /\ ShutdownOnlyAfterAlarm
    /\ flags.noShutdown => cmds = <<>>
    /\ flags.noShutdown /\ ~flags.dumpHTML /\ pc = "returned" /\ result = "nil" =>
           output.kind = "calendar"

\* a run with noShutdown that generated the PNG and executed no command
C20_Witness ==
    /\ flags.noShutdown
    /\ ~flags.dumpHTML
    /\ pc = "returned"
    /\ result = "nil"
    /\ output.kind = "calendar"
    /\ cmds = <<>>

----------------------------------------------------------------------------
(* main *)

\* C19: when main ends on an error, the file at the output path is the error
\* PNG of that error, with all the debugging fields.
C19_ErrorPngOnFailure ==
    pc = "exited" /\ result = "exit1" =>
        /\ output.kind = "error"
        /\ output.fields = DebugFields
        /\ output.msg \in log

----------------------------------------------------------------------------
(* the PiSugar alarm *)

\* the characters i..j of a string
Sub(str, i, j) == SubSeq(str, i, j)

\* C21: the alarm time is later than now, at most one hour later, and its
\* formatted minute and second are 00.
C21_NextWholeHour ==
    pc = "alarm set" =>
        /\ NextHour(clock) > clock
        /\ NextHour(clock) <= clock + Hour
        /\ Sub(alarmTime, 15, 16) = <<"0", "0">>
        /\ Sub(alarmTime, 18, 19) = <<"0", "0">>

----------------------------------------------------------------------------
(* RenderCalendarToPNG *)

\* a grid with a week that has not 7 cells, or a negative canvas size
ProgrammerError(d) ==
    \/ d.Width < 0
    \/ d.Height < 0
    \/ \E w \in DOMAIN d.Weeks : Len(d.Weeks[w].Days) # 7

\* C22: RenderCalendarToPNG returns an error when a week of the grid has not
\* 7 cells or the canvas width or height is negative.
C22_FailsFast ==
    pc = "rendered" /\ ProgrammerError(tmpl) => renderErr # "nil"

\* the events of the day a drawn cell was drawn from
EventsOf(cell) == tmpl.Weeks[cell.week + 1].Days[cell.day + 1].Events

\* the top and the height of the part of a cell left to its events
EventsTop(cell) == cell.y + 40
AvailableHeight(cell) == cell.height - 40

\* C26: the rows drawn in a cell are those of the first events of the cell,
\* in order, one every eventHeight + gap from the top, each ending inside the
\* available height; when events are left out the next row would end below
\* the available height.
C26_RowsArePrefix ==
    pc = "rendered" =>
        \A c \in DOMAIN canvas :
            LET cell == canvas[c]
                n    == Len(cell.rows)
            IN  /\ n <= Len(EventsOf(cell))
                /\ \A k \in 1..n :
                    /\ cell.rows[k].index = k
                    /\ cell.rows[k].y = EventsTop(cell) + (k - 1) * (eventHeight + gap)
                    /\ cell.rows[k].y + eventHeight
                         <= EventsTop(cell) + AvailableHeight(cell)
                /\ n < Len(EventsOf(cell)) =>
                    EventsTop(cell) + n * (eventHeight + gap) + eventHeight
                        > EventsTop(cell) + AvailableHeight(cell)

\* a cell of three events with two rows drawn, the second one ending exactly
\* at the bottom of the available height
C26_Witness ==
    /\ pc = "rendered"
    /\ \E c \in DOMAIN canvas :
        /\ Len(EventsOf(canvas[c])) = 3
        /\ Len(canvas[c].rows) = 2
        /\ canvas[c].rows[2].y + eventHeight
             = EventsTop(canvas[c]) + AvailableHeight(canvas[c])

----------------------------------------------------------------------------
(* FetchEventsForMonth *)

\* a start or end value of an item that is given and does not parse
BadValue(v, loc) ==
    \/ v.DateTime # <<>> /\ ~ParseRFC3339In(v.DateTime, loc).ok
    \/ v.DateTime = <<>> /\ v.Date # <<>> /\ ~ParseDate(v.Date).ok

Unparsable(item) ==
    BadValue(item.Start, zone \div 60) \/ BadValue(item.End, zone \div 60)

\* C23: when the start or the end of an item does not parse the fetch
\* returns an error, and no event with a zero start or end is returned.
C23_UnparsableFailsFast ==
    pc \in {"fetched", "prepared"} =>
        /\ (\E i \in DOMAIN providerItems : Unparsable(providerItems[i]))
               => fetchResult.err # "nil"
        /\ \A i \in DOMAIN fetchResult.events :
               /\ fetchResult.events[i].Start # ZeroTime
               /\ fetchResult.events[i].End # ZeroTime

\* the day numbers of the dates of the grid
GridDays == { DaysFromCivil(Cells[c].Date[1], Cells[c].Date[2], Cells[c].Date[3])
              : c \in DOMAIN Cells }

Midnight(day) == FormatRFC3339([day |-> day, tod |-> 0], zone \div 60)

\* C29: timeMin is 00:00 of the first date of the grid, a Monday, timeMax is
\* 00:00 of the day after its last date, a Sunday, and the dates from
\* timeMin to before timeMax are the dates of the grid.
C29_WindowIsGrid ==
    pc = "prepared" /\ timeMin # <<>> =>
        LET first == DaysFromCivil(Cells[1].Date[1], Cells[1].Date[2], Cells[1].Date[3])
            last  == first + Len(Cells) - 1
            from  == ParseRFC3339In(timeMin, zone \div 60).t
            to    == ParseRFC3339In(timeMax, zone \div 60).t
        IN  /\ timeMin = Midnight(first)
            /\ timeMax = Midnight(last + 1)
            /\ Weekday(first) = 1
            /\ Weekday(last) = 0
            /\ from.tod = 0 /\ to.tod = 0
            /\ GridDays = from.day..(to.day - 1)

\* a grid of six weeks whose window starts in the month before and ends in
\* the month after
C29_Witness ==
    /\ pc = "prepared"
    /\ timeMin # <<>>
    /\ Len(Cells) = 42
    /\ SubSeq(timeMin, 6, 7) # SubSeq(timeMax, 6, 7)
    /\ Cells[1].Date[2] # Month(now.day)
    /\ Cells[42].Date[2] # Month(now.day)

----------------------------------------------------------------------------
(* GetBatteryPercentage *)

\* C24: when the reading fails GetBatteryPercentage returns 100 as the
\* percentage.
C24_FailureGives100 ==
    pc = "battery read" /\ batteryResult.err # "nil" =>
        batteryResult.value \in {<<"1", "0", "0">>, <<"1", "0", "0", "%">>}

----------------------------------------------------------------------------
(* truncateText against its reference *)

\* the prefix lengths, in bytes, that fit the width with the ellipsis
FittingPrefixes(s, w) ==
    { i \in 1..Len(s) : Px(MeasureString(font, SubSeq(s, 1, i) \o Ellipsis)) <= w }

Max(S) == CHOOSE m \in S : \A k \in S : k <= m

\* the reference: the text when it fits; else, for a width above the
\* ellipsis width, the longest fitting prefix and the ellipsis; else the
\* ellipsis
Reference(s, w) ==
    IF Px(MeasureString(font, s)) <= w THEN s
    ELSE IF w > EllipsisWidth /\ FittingPrefixes(s, w) # {}
         THEN SubSeq(s, 1, Max(FittingPrefixes(s, w))) \o Ellipsis
         ELSE Ellipsis

\* C25: truncateText returns what the reference gives for the text and the
\* width.
C25_EqualsReference ==
    Returned => truncated = Reference(text, maxWidth)

\* a text cut to its longest fitting prefix while a shorter prefix fits too
C25_Witness ==
    /\ Returned
    /\ truncated # text
    /\ Cardinality(FittingPrefixes(text, maxWidth)) >= 2
    /\ Len(truncated) = Max(FittingPrefixes(text, maxWidth)) + Len(Ellipsis)

\* C27: the per-day sort is stable beyond its two keys: two events of one
\* class (all-day or timed) with equal start times keep the order they had
\* in the slice given to SortEvents, for buckets of any size
PositionIn(evs, e) == CHOOSE k \in DOMAIN evs : evs[k] = e

C27_SortIsStable ==
    pc = "sorted" =>
        \A i, j \in DOMAIN sortedEvents :
            (i < j /\ Tied(sortedEvents[i], sortedEvents[j]))
                => PositionIn(events, sortedEvents[i]) < PositionIn(events, sortedEvents[j])

\* C28: for one clock reading, exactly one cell of the grid has IsToday set,
\* the cell dated today; IsPast is set for exactly the cells before that cell
\* in row-major order; no cell has both
C28_OneTodayPastBefore ==
    pc = "prepared" =>
        LET cells == Cells
        IN  \E t \in DOMAIN cells :
                /\ cells[t].Date = CivilFromDays(now.day)
                /\ \A i \in DOMAIN cells :
                      /\ cells[i].IsToday <=> i = t
                      /\ cells[i].IsPast <=> i < t
                      /\ ~(cells[i].IsToday /\ cells[i].IsPast)

\* 28 March 2024: the 32nd cell is today, Feb 28 and the cells before
\* today are past, the cells after it are not
C28_Witness ==
    /\ pc = "prepared"
    /\ CivilFromDays(now.day) = <<2024, 3, 28>>
    /\ Cells[32].IsToday /\ ~Cells[32].IsPast
    /\ Cells[3].Date = <<2024, 2, 28>> /\ Cells[3].IsPast /\ ~Cells[3].IsToday
    /\ Cells[31].IsPast /\ ~Cells[33].IsPast /\ ~Cells[35].IsToday

\* the alarm command failed in this run of main
AlarmFailed ==
    \E i \in DOMAIN cmds : cmds[i] = [cmd |-> "set-alarm", ok |-> FALSE]

\* the alarm command has just failed
AlarmJustFailed ==
    cmds # <<>> /\ cmds[Len(cmds)] = [cmd |-> "set-alarm", ok |-> FALSE]

\* a failed alarm does not end the run: main goes on to the shutdown, and
\* ends only after the shutdown command was executed
ShutdownStillIssued ==
    AlarmFailed =>
        /\ pc \in {"shutdown", "exited"}
        /\ pc = "exited" => cmds[Len(cmds)].cmd = "shutdown"

====
